---- MODULE Spec2Model ----
(***************************************************************************)
(* A model of the entity/component store (World), the global State        *)
(* machine and the per-frame system pipeline of the maze game.            *)
(*                                                                         *)
(* Units.  Positions and scales are integers in units of 1/2500 of a map  *)
(* tile (so that SinkingDoorSystem's dt/2500 is dt units and the 1/20     *)
(* step of ControlSystem is 125 units); angles are integers in tenths of  *)
(* a degree (so that SpinningKeySystem's dt/5 degrees is 2*dt units and a *)
(* mouse delta of m gives m units); times are milliseconds.               *)
(***************************************************************************)
EXTENDS Integers, Sequences, FiniteSets, TLC

VARIABLES
    w,          \* a stand-alone World driven through its public API
    issued,     \* history: every Entity new_entity has returned on w
    deleted,    \* history: every live Entity delete_entity has removed from w
    last,       \* the last API call on w, its arguments and its result
    par,        \* the par_iter in progress on w, if any
    res,        \* the asset caches, their locks and the threads that load
    state,      \* run: the global State (Playing(World), Done(World, t), Close)
    pc,         \* run: "loop" at the while test, "frame" inside a frame, "exit"
    idx,        \* run: the position in the systems HList of the next system
    dt,         \* run: the dt of the frame in progress
    control,    \* ControlSystem: move_forward and move_strafe
    frames,     \* history: the number of frames started
    stepped,    \* history: the systems stepped in the last frame, with their dt
    polled      \* history: what the last frame's poll of events held

apiVars == <<w, issued, deleted, last, par, res>>

runVars == <<state, pc, idx, dt, control, frames, stepped, polled>>

vars == <<w, issued, deleted, last, par, res,
          state, pc, idx, dt, control, frames, stepped, polled>>

----------------------------------------------------------------------------
(* Bounds *)

MaxEntities == 2      \* new_entity calls on the stand-alone World
NumWorkers  == 2      \* rayon workers of a par_iter
ParEntities == 2      \* entities of the World a par_iter runs on
MaxFrames   == 5      \* frames of the host loop
MaxEvents   == 2      \* events one poll of the event loop returns
MaxProps    == 3      \* entities besides the camera of a World the systems are called on
MaxSteps    == 2      \* calls of a system's step on such a World

----------------------------------------------------------------------------
(* Option<T> *)

None == <<>>
Some(x) == <<x>>
IsSome(o) == o # None
Unwrap(o) == o[1]

(* Sequences helpers *)

Range(s) == {s[i] : i \in DOMAIN s}

SeqsUpTo(S, n) == UNION {[1..k -> S] : k \in 0..n}

Perms(S) == {p \in [1..Cardinality(S) -> S] : Range(p) = S}

Without(f, e) == [x \in (DOMAIN f) \ {e} |-> f[x]]

With(f, k, v) == [x \in (DOMAIN f) \cup {k} |-> IF x = k THEN v ELSE f[x]]

EmptyMap == [x \in {} |-> {}]

----------------------------------------------------------------------------
(* Components of the documentation tests (state.rs:282-292); a component  *)
(* value carries its type identity in the field "type", the key of the    *)
(* ShareMap slot it is stored in.                                          *)

FooComponent(s) == [type |-> "FooComponent", str |-> s]
BarComponent(n) == [type |-> "BarComponent", num |-> n]
BazComponent == [type |-> "BazComponent"]

TestTypes == {"FooComponent", "BarComponent", "BazComponent"}
TestValues == {FooComponent("hello"), BarComponent(42), BarComponent(43), BazComponent}
TestNames == {"h"}

(* the component sets (HLists of references) the API calls are made with *)
QuerySets ==
    { <<>>, <<"FooComponent">>, <<"BarComponent">>,
      <<"FooComponent", "BarComponent">>, <<"BarComponent", "BazComponent">> }

(* the component lists (HLists of values) entities are created with *)
NewLists ==
    { <<>>, <<FooComponent("hello")>>, <<BarComponent(42)>>,
      <<FooComponent("hello"), BarComponent(42)>>,
      <<BarComponent(42), BazComponent>>,
      <<BarComponent(42), BarComponent(43)>> }

EntityOf_nameOnly(n, name) == name

(* Entity(format!("{}:{}", self.next_entity, name).into()) *)
EntityOf(n, name) == ToString(n) \o ":" \o name

(* every Entity value a caller can hold: issued by this World or not *)
EntityUniverse ==
    {EntityOf(n, name) : n \in 0..MaxEntities, name \in TestNames}
        \cup {EntityOf(0, "foo")}

----------------------------------------------------------------------------
(* World *)

WorldDefault == [next_entity |-> 0, components |-> EmptyMap]

RECURSIVE add_to_component_map(_, _)
add_to_component_map(cs, map) ==
    IF cs = <<>> THEN map
    ELSE add_to_component_map(Tail(cs), With(map, Head(cs).type, Head(cs)))

RECURSIVE get_from_component_map_partial(_, _)
get_from_component_map_partial(map, C) ==
    IF C = <<>> THEN Some(<<>>)
    ELSE IF Head(C) \notin DOMAIN map THEN None
    ELSE LET tail == get_from_component_map_partial(map, Tail(C))
         IN  IF tail = None THEN Some(<<map[Head(C)]>>)
             ELSE Some(<<map[Head(C)]>> \o Unwrap(tail))

RECURSIVE get_from_component_map(_, _)
get_from_component_map(map, C) ==
    IF C = <<>> THEN Some(<<>>)
    ELSE IF Head(C) \notin DOMAIN map THEN None
    ELSE LET tail == get_from_component_map(map, Tail(C))
         IN  IF tail = None THEN None
             ELSE Some(<<map[Head(C)]>> \o Unwrap(tail))

get(world, C, entity) ==
    IF entity \in DOMAIN world.components
    THEN get_from_component_map(world.components[entity], C)
    ELSE None

get_one(world, T, entity) ==
    IF entity \in DOMAIN world.components /\ T \in DOMAIN world.components[entity]
    THEN Some(world.components[entity][T])
    ELSE None

(* get_mut hands out &mut T; set_mut is the write a caller makes through it *)
get_mut(world, T, entity) == get_one(world, T, entity)

set_mut(world, T, entity, v) ==
    [world EXCEPT !.components =
        With(world.components, entity, With(world.components[entity], T, v))]

(* keys() of the HashMap: every key once, in an order the code does not fix *)
keys(world) == Perms(DOMAIN world.components)

RECURSIVE filter_map_get_headOnly(_, _, _)
filter_map_get_headOnly(world, C, ks) ==
    IF ks = <<>> THEN <<>>
    ELSE LET cs == get(world, IF C = <<>> THEN C ELSE <<Head(C)>>, Head(ks))
             rest == filter_map_get_headOnly(world, C, Tail(ks))
         IN  IF IsSome(cs) THEN <<[entity |-> Head(ks), cs |-> Unwrap(cs)]>> \o rest
             ELSE rest

RECURSIVE filter_map_get(_, _, _)
filter_map_get(world, C, ks) ==
    IF ks = <<>> THEN <<>>
    ELSE LET cs == get(world, C, Head(ks))
             rest == filter_map_get(world, C, Tail(ks))
         IN  IF IsSome(cs) THEN <<[entity |-> Head(ks), cs |-> Unwrap(cs)]>> \o rest
             ELSE rest

(* the sequences iter() can yield *)
iter(world, C) == {filter_map_get(world, C, ks) : ks \in keys(world)}

(* the entities iter() yields, for the callers that only collect them *)
iter_entities(world, C) == {e \in DOMAIN world.components : IsSome(get(world, C, e))}

delete_entity_clear(world, entity) ==
    [world EXCEPT !.components = EmptyMap]

delete_entity(world, entity) ==
    [world EXCEPT !.components = Without(world.components, entity)]

(* whether the call panics: HashMap::remove returns None for a key that is *)
(* not there and the result is dropped                                     *)
delete_entity_panics(world, entity) == FALSE

new_entity(world, name, components) ==
    LET entity == EntityOf(world.next_entity, name)
        map == add_to_component_map(components, EmptyMap)
    IN  [entity |-> entity,
         world |-> [next_entity |-> world.next_entity + 1,
                    components |-> With(world.components, entity, map)]]

----------------------------------------------------------------------------
(* The API of a stand-alone World, called in any order *)

ParIdle == [active |-> FALSE]

(* no asset has been loaded and no thread is loading *)
ResIdle == [active |-> FALSE]

(* the host loop is not running *)
RunIdle ==
    /\ state = [tag |-> "Close"]
    /\ pc = "exit"
    /\ idx = 0
    /\ dt = 0
    /\ control = [move_forward |-> 0, move_strafe |-> 0]
    /\ frames = 0
    /\ stepped = <<>>
    /\ polled = [close |-> FALSE, before |-> "none"]

InitApi ==
    /\ RunIdle
    /\ w = WorldDefault
    /\ issued = {}
    /\ deleted = {}
    /\ last = [op |-> "none"]
    /\ par = ParIdle
    /\ res = ResIdle

NewEntity ==
    /\ ~par.active
    /\ w.next_entity < MaxEntities
    /\ \E name \in TestNames, components \in NewLists :
          LET r == new_entity(w, name, components)
          IN  /\ w' = r.world
              /\ issued' = issued \cup {r.entity}
              /\ last' = [op |-> "new_entity", entity |-> r.entity]
    /\ UNCHANGED <<deleted, par, res>>
    /\ UNCHANGED runVars

DeleteEntity ==
    /\ ~par.active
    /\ \E entity \in EntityUniverse :
          /\ w' = delete_entity(w, entity)
          /\ deleted' = IF entity \in DOMAIN w.components
                        THEN deleted \cup {entity} ELSE deleted
          /\ last' = [op |-> "delete_entity", entity |-> entity,
                      panicked |-> delete_entity_panics(w, entity)]
    /\ UNCHANGED <<issued, par, res>>
    /\ UNCHANGED runVars

GetMut ==
    /\ ~par.active
    /\ \E entity \in EntityUniverse, v \in TestValues :
          LET r == get_mut(w, v.type, entity)
          IN  /\ w' = IF IsSome(r) THEN set_mut(w, v.type, entity, v) ELSE w
              /\ last' = [op |-> "get_mut", entity |-> entity, set |-> <<v.type>>,
                          result |-> r]
    /\ UNCHANGED <<issued, deleted, par, res>>
    /\ UNCHANGED runVars

Get ==
    /\ ~par.active
    /\ \E entity \in EntityUniverse, C \in QuerySets :
          last' = [op |-> "get", entity |-> entity, set |-> C,
                   result |-> get(w, C, entity)]
    /\ UNCHANGED <<w, issued, deleted, par, res>>
    /\ UNCHANGED runVars

Iter ==
    /\ ~par.active
    /\ \E C \in QuerySets :
          \E items \in iter(w, C) :
              last' = [op |-> "iter", set |-> C, result |-> items]
    /\ UNCHANGED <<w, issued, deleted, par, res>>
    /\ UNCHANGED runVars

NextApi == NewEntity \/ DeleteEntity \/ GetMut \/ Get \/ Iter

SpecApi == InitApi /\ [][NextApi]_vars

----------------------------------------------------------------------------
(* par_iter: the keys of the HashMap are handed to the rayon workers, each *)
(* key to one worker; a worker maps and filters the key it holds and      *)
(* passes the item on.  The World is borrowed for the whole iteration, so *)
(* no other call touches it meanwhile.                                     *)

Idle == "idle"

par_filter_map_headOnly(world, C, entity) ==
    LET cs == get(world, IF C = <<>> THEN C ELSE <<Head(C)>>, entity)
    IN  IF IsSome(cs) THEN Some([entity |-> entity, cs |-> Unwrap(cs)]) ELSE None

(* .map(|(&k, _)| k).filter_map(move |entity| self.get(entity).map(|cs| (entity, cs))) *)
par_filter_map(world, C, entity) ==
    LET cs == get(world, C, entity)
    IN  IF IsSome(cs) THEN Some([entity |-> entity, cs |-> Unwrap(cs)]) ELSE None

(* self.components.par_iter(): the items the workers share out *)
par_keys(world) == DOMAIN world.components

RECURSIVE build(_, _)
build(world, lists) ==
    IF lists = <<>> THEN world
    ELSE build(new_entity(world, "foo", Head(lists)).world, Tail(lists))

ParLists == { <<FooComponent("hello")>>, <<BarComponent(42)>>,
              <<FooComponent("hello"), BarComponent(42)>> }

ParSets == { <<>>, <<"FooComponent">>, <<"FooComponent", "BarComponent">> }

InitPar ==
    /\ RunIdle
    /\ w \in {build(WorldDefault, lists) : lists \in SeqsUpTo(ParLists, ParEntities)}
    /\ issued = DOMAIN w.components
    /\ deleted = {}
    /\ last = [op |-> "none"]
    /\ par = ParIdle
    /\ res = ResIdle

ParStart ==
    /\ ~par.active
    /\ \E C \in ParSets :
          par' = [active |-> TRUE, set |-> C, todo |-> par_keys(w),
                  cur |-> [k \in 1..NumWorkers |-> Idle], out |-> <<>>]
    /\ UNCHANGED <<w, issued, deleted, last, res>>
    /\ UNCHANGED runVars

ParClaim ==
    /\ par.active
    /\ \E k \in 1..NumWorkers, entity \in par.todo :
          /\ par.cur[k] = Idle
          /\ par' = [par EXCEPT !.todo = @ \ {entity}, !.cur[k] = entity]
    /\ UNCHANGED <<w, issued, deleted, last, res>>
    /\ UNCHANGED runVars

ParEmit ==
    /\ par.active
    /\ \E k \in 1..NumWorkers :
          /\ par.cur[k] # Idle
          /\ LET item == par_filter_map(w, par.set, par.cur[k])
             IN  par' = [par EXCEPT !.cur[k] = Idle,
                                    !.out = IF IsSome(item) THEN Append(@, Unwrap(item))
                                            ELSE @]
    /\ UNCHANGED <<w, issued, deleted, last, res>>
    /\ UNCHANGED runVars

ParFinish ==
    /\ par.active
    /\ par.todo = {}
    /\ \A k \in 1..NumWorkers : par.cur[k] = Idle
    /\ last' = [op |-> "par_iter", set |-> par.set, result |-> par.out]
    /\ par' = ParIdle
    /\ UNCHANGED <<w, issued, deleted, res>>
    /\ UNCHANGED runVars

NextPar == ParStart \/ ParClaim \/ ParEmit \/ ParFinish

SpecPar == InitPar /\ [][NextPar]_vars

----------------------------------------------------------------------------
(* Components of the game (components.rs, gui/render.rs) *)

Unit == 2500

CameraComponent == [type |-> "CameraComponent"]
GoalComponent == [type |-> "GoalComponent"]
LocationComponent(xyz, rotation, scale) ==
    [type |-> "LocationComponent", xyz |-> xyz, rotation |-> rotation, scale |-> scale]
CollisionComponent(active) == [type |-> "CollisionComponent", active |-> active]
DoorComponent(letter) == [type |-> "DoorComponent", letter |-> letter]
KeyComponent(letter, held) == [type |-> "KeyComponent", letter |-> letter, held |-> held]
RenderComponent(model) == [type |-> "RenderComponent", model |-> model]
DecalComponent(enabled, image) ==
    [type |-> "DecalComponent", enabled |-> enabled, image |-> image]

(* LocationComponent::pos: no rotation, scale 1.0 *)
pos(x, y, z) == LocationComponent(<<x, y, z>>, <<0, 0, 0>>, Unit)

LocationDefault == LocationComponent(<<0, 0, 0>>, <<0, 0, 0>>, Unit)

(* sine and cosine of an angle that is a multiple of 90 degrees *)
Sin(a) == CASE a % 3600 = 0 -> 0 [] a % 3600 = 900 -> 1
            [] a % 3600 = 1800 -> 0 [] a % 3600 = 2700 -> -1
Cos(a) == Sin(a + 900)

(* Matrix3::from_angle_y(Deg(yaw)) * Vector3::unit_z() *)
front(yaw) == <<Sin(yaw), 0, Cos(yaw)>>

(* f32 %: the remainder has the sign of the dividend *)
Rem(a, b) == IF a >= 0 THEN a % b ELSE 0 - ((0 - a) % b)

Sq(x) == x * x

DistSq(p, q) == Sq(p[1] - q[1]) + Sq(p[2] - q[2]) + Sq(p[3] - q[3])

collides_inclusive(self, other) ==
    2 * DistSq(self.xyz, other.xyz) <= Sq(self.scale + other.scale)

(* distance < (self.scale + other.scale) * sqrt(2) / 2, both sides squared *)
collides(self, other) ==
    2 * DistSq(self.xyz, other.xyz) < Sq(self.scale + other.scale)

move_by(self, forward, strafe) ==
    LET f == front(self.rotation[2])
        x == self.xyz[1] + forward * f[1] + strafe * (0 - f[3])
        z == self.xyz[3] + forward * f[3] + strafe * f[1]
    IN  [self EXCEPT !.xyz = <<x, self.xyz[2], z>>]

rotate_by(self, pitch, yaw) ==
    LET p == self.rotation[1] + pitch
        clamped == IF p > 850 THEN 850 ELSE IF p < -850 THEN -850 ELSE p
    IN  [self EXCEPT !.rotation =
            <<clamped, Rem(self.rotation[2] + yaw, 3600), self.rotation[3]>>]

----------------------------------------------------------------------------
(* Map and World::from_map *)

Empty == [kind |-> "Empty"]
Wall == [kind |-> "Wall"]
Door(ch) == [kind |-> "Door", ch |-> ch]

(* x as f32 + 0.5 *)
Centre(i) == i * Unit + Unit \div 2

RECURSIVE new_entities(_, _)
new_entities(world, specs) ==
    IF specs = <<>> THEN world
    ELSE new_entities(new_entity(world, Head(specs).name, Head(specs).components).world,
                      Tail(specs))

BorderWall(x, z) ==
    [name |-> "border-wall",
     components |-> <<RenderComponent("wall"), pos(x, Unit \div 2, z), CollisionComponent(TRUE)>>]

from_map_entities(map) ==
    LET xs == map.dims[1]
        ys == map.dims[2]
        player == [name |-> "player", components |->
            <<CameraComponent,
              LocationComponent(<<Centre(map.start[1]), Unit \div 4, Centre(map.start[2])>>,
                                <<0, 0, 0>>, Unit \div 5)>>]
        goal == [name |-> "goal", components |->
            <<GoalComponent,
              LocationComponent(<<Centre(map.goal[1]), Unit \div 2, Centre(map.goal[2])>>,
                                <<0, 0, 0>>, Unit)>>]
        floor == [name |-> "floor", components |->
            <<RenderComponent("floor"), LocationDefault>>]
        borderX == [i \in 1..(2 * xs) |->
            IF i % 2 = 1 THEN BorderWall(Centre((i - 1) \div 2), Centre(ys))
                         ELSE BorderWall(Centre((i - 1) \div 2), 0 - Unit \div 2)]
        borderY == [i \in 1..(2 * ys) |->
            IF i % 2 = 1 THEN BorderWall(Centre(xs), Centre((i - 1) \div 2))
                         ELSE BorderWall(0 - Unit \div 2, Centre((i - 1) \div 2))]
        tile(k) ==
            LET x == (k - 1) \div ys
                y == (k - 1) % ys
                t == map.tiles[x + y * xs + 1]
                loc == pos(Centre(x), Unit \div 2, Centre(y))
            IN  CASE t.kind = "Empty" -> [name |-> "", components |-> <<>>]
                  [] t.kind = "Wall" -> [name |-> "wall", components |->
                        <<RenderComponent("wall"), loc, CollisionComponent(TRUE)>>]
                  [] t.kind = "Door" -> [name |-> "door", components |->
                        <<RenderComponent("door"), loc, CollisionComponent(TRUE),
                          DoorComponent(t.ch)>>]
        tiles == SelectSeq([k \in 1..(xs * ys) |-> tile(k)], LAMBDA e : e.name # "")
        keyEntities == [i \in 1..Len(map.keys) |->
            [name |-> "key", components |->
                <<RenderComponent("key"),
                  LocationComponent(<<Centre(map.keys[i][1]), Unit \div 10,
                                      Centre(map.keys[i][2])>>, <<0, 0, 0>>, Unit \div 10),
                  KeyComponent(map.keys[i][3], FALSE)>>]]
        win == [name |-> "win", components |-> <<DecalComponent(FALSE, map.win_decal)>>]
    IN  <<player, goal, floor>> \o borderX \o borderY \o tiles \o keyEntities \o <<win>>

from_map(map) == new_entities(WorldDefault, from_map_entities(map))

(* the maps the game is started on: chars are their code points *)
Maps ==
    { [dims |-> <<2, 1>>, tiles |-> <<Empty, Empty>>, start |-> <<0, 0>>,
       goal |-> <<0, 0>>, keys |-> <<>>, win_decal |-> "win.png"],
      [dims |-> <<2, 1>>, tiles |-> <<Empty, Empty>>, start |-> <<0, 0>>,
       goal |-> <<1, 0>>, keys |-> <<>>, win_decal |-> "win.png"],
      [dims |-> <<2, 1>>, tiles |-> <<Empty, Door(65)>>, start |-> <<0, 0>>,
       goal |-> <<1, 0>>, keys |-> << <<0, 0, 97>> >>, win_decal |-> "win.png"] }

----------------------------------------------------------------------------
(* State (state.rs:19-47) *)

Playing(world) == [tag |-> "Playing", world |-> world]
Done(world, t) == [tag |-> "Done", world |-> world, t |-> t]
Close == [tag |-> "Close"]

should_close_atLeast(st) ==
    CASE st.tag = "Done" -> st.t >= 3500
      [] st.tag = "Close" -> TRUE
      [] OTHER -> FALSE

should_close(st) ==
    CASE st.tag = "Done" -> st.t > 3500
      [] st.tag = "Close" -> TRUE
      [] OTHER -> FALSE

(* State::Playing(ref mut world) | State::Done(ref mut world, _) => world *)
HasWorld(st) == st.tag \in {"Playing", "Done"}

WithWorld(st, world) == [st EXCEPT !.world = world]

(* the entities of es for which get_mut::<T>(entity) is Some *)
having(world, es, T) == {e \in es : IsSome(get_mut(world, T, e))}

(* for entity in es { if let Some(c) = world.get_mut::<T>(entity) { write c } }:
   new maps each entity of having(world, es, T) to the value written *)
update_each(world, T, new) ==
    [world EXCEPT !.components =
        [e \in DOMAIN world.components |->
            IF e \in DOMAIN new
            THEN [world.components[e] EXCEPT ![T] = new[e]]
            ELSE world.components[e]]]

RECURSIVE delete_each(_, _)
delete_each(world, es) ==
    IF es = {} THEN world
    ELSE LET e == CHOOSE x \in es : TRUE
         IN  delete_each(delete_entity(world, e), es \ {e})

Loc(world, e) == world.components[e]["LocationComponent"]

(* world.iter().next() over [&CameraComponent, &LocationComponent] *)
cameras(world) == iter_entities(world, <<"CameraComponent", "LocationComponent">>)

----------------------------------------------------------------------------
(* The systems (systems.rs), as functions of the World *)

HoldSystem_step_keepsHeight(world, camera) ==
    LET held_keys == {e \in iter_entities(world, <<"KeyComponent">>) :
                         world.components[e]["KeyComponent"].held}
        f == front(camera.rotation[2])
        snap == [e \in having(world, held_keys, "LocationComponent") |->
                    [Loc(world, e) EXCEPT !.xyz = <<camera.xyz[1] + 3 * (Unit \div 10) * f[1],
                                                   camera.xyz[2],
                                                   camera.xyz[3] + 3 * (Unit \div 10) * f[3]>>]]
    IN  update_each(world, "LocationComponent", snap)

HoldSystem_step(world, camera) ==
    LET held_keys == {e \in iter_entities(world, <<"KeyComponent">>) :
                         world.components[e]["KeyComponent"].held}
        f == front(camera.rotation[2])
        snap == [e \in having(world, held_keys, "LocationComponent") |->
                    [Loc(world, e) EXCEPT !.xyz = <<camera.xyz[1] + 3 * (Unit \div 10) * f[1],
                                                   Unit \div 10,
                                                   camera.xyz[3] + 3 * (Unit \div 10) * f[3]>>]]
    IN  update_each(world, "LocationComponent", snap)

(* world.get_mut(entity).unwrap(): a held key without a location panics *)
HoldSystem_panics(world) ==
    \E e \in iter_entities(world, <<"KeyComponent">>) :
        /\ world.components[e]["KeyComponent"].held
        /\ ~IsSome(get_mut(world, "LocationComponent", e))

SinkingDoorSystem_step_still(world, dtv) == world

SinkingDoorSystem_step_allDoors(world, dtv) ==
    LET to_sink == iter_entities(world, <<"DoorComponent", "CollisionComponent">>)
        sink == [e \in having(world, to_sink, "LocationComponent") |->
                    [Loc(world, e) EXCEPT !.xyz[2] = @ - dtv]]
    IN  update_each(world, "LocationComponent", sink)

SinkingDoorSystem_step(world, dtv) ==
    LET to_sink == {e \in iter_entities(world, <<"DoorComponent", "CollisionComponent">>) :
                       ~world.components[e]["CollisionComponent"].active}
        sink == [e \in having(world, to_sink, "LocationComponent") |->
                    [Loc(world, e) EXCEPT !.xyz[2] = @ - dtv]]
    IN  update_each(world, "LocationComponent", sink)

SnagSystem_step_releases(world, camera) ==
    LET near == iter_entities(world, <<"LocationComponent", "KeyComponent">>)
        hold == [e \in having(world, near, "KeyComponent") |->
                    [world.components[e]["KeyComponent"]
                        EXCEPT !.held = collides(camera, Loc(world, e))]]
    IN  update_each(world, "KeyComponent", hold)

SnagSystem_step_noCollision(world, camera) ==
    LET snagged_keys == {e \in iter_entities(world, <<"LocationComponent", "KeyComponent">>) :
                            ~world.components[e]["KeyComponent"].held}
        hold == [e \in having(world, snagged_keys, "KeyComponent") |->
                    [world.components[e]["KeyComponent"] EXCEPT !.held = TRUE]]
    IN  update_each(world, "KeyComponent", hold)

SnagSystem_step(world, camera) ==
    LET snagged_keys == {e \in iter_entities(world, <<"LocationComponent", "KeyComponent">>) :
                            /\ ~world.components[e]["KeyComponent"].held
                            /\ collides(camera, Loc(world, e))}
        hold == [e \in having(world, snagged_keys, "KeyComponent") |->
                    [world.components[e]["KeyComponent"] EXCEPT !.held = TRUE]]
    IN  update_each(world, "KeyComponent", hold)

SpinningKeySystem_step(world, dtv) ==
    LET to_spin == iter_entities(world, <<"KeyComponent">>)
        spin == [e \in having(world, to_spin, "LocationComponent") |->
                    [Loc(world, e) EXCEPT !.rotation[2] = @ + 2 * dtv]]
    IN  update_each(world, "LocationComponent", spin)

TheFloorIsLavaSystem_step_atThreshold(world) ==
    LET to_delete == {e \in iter_entities(world, <<"LocationComponent">>) :
                         Loc(world, e).xyz[2] <= 0 - Unit}
    IN  delete_each(world, to_delete)

TheFloorIsLavaSystem_step(world) ==
    LET to_delete == {e \in iter_entities(world, <<"LocationComponent">>) :
                         Loc(world, e).xyz[2] < 0 - Unit}
    IN  delete_each(world, to_delete)

(* (key_letter as u32).wrapping_sub(door_letter as u32), as two 16-bit limbs *)
wrapping_sub(a, b) ==
    IF a >= b THEN <<(a - b) \div 65536, (a - b) % 65536>>
    ELSE <<65535 - ((b - a - 1) \div 65536), (a - b) % 65536>>

unlock_matches_eitherCase(world, door, key) ==
    /\ collides(Loc(world, door), Loc(world, key))
    /\ \/ wrapping_sub(world.components[key]["KeyComponent"].letter,
                       world.components[door]["DoorComponent"].letter) = <<0, 32>>
       \/ wrapping_sub(world.components[door]["DoorComponent"].letter,
                       world.components[key]["KeyComponent"].letter) = <<0, 32>>

unlock_matches(world, door, key) ==
    /\ collides(Loc(world, door), Loc(world, key))
    /\ wrapping_sub(world.components[key]["KeyComponent"].letter,
                    world.components[door]["DoorComponent"].letter) = <<0, 32>>

unlocks(world) ==
    {p \in iter_entities(world, <<"DoorComponent", "LocationComponent">>)
            \X iter_entities(world, <<"KeyComponent", "LocationComponent">>) :
        unlock_matches(world, p[1], p[2])}

UnlockSystem_step_keepsFlag(world) ==
    delete_each(world, {p[2] : p \in unlocks(world)})

UnlockSystem_step(world) ==
    LET us == unlocks(world)
        without_keys == delete_each(world, {p[2] : p \in us})
        deactivate == [e \in having(without_keys, {p[1] : p \in us}, "CollisionComponent") |->
                          [without_keys.components[e]["CollisionComponent"]
                              EXCEPT !.active = FALSE]]
    IN  update_each(without_keys, "CollisionComponent", deactivate)

goals_unfiltered(world, camera) ==
    iter_entities(world, <<"GoalComponent", "LocationComponent">>)

(* the goals the camera collides with: the filter of WinSystem *)
goals(world, camera) ==
    {e \in iter_entities(world, <<"GoalComponent", "LocationComponent">>) :
        collides(camera, Loc(world, e))}

decals(world) == iter_entities(world, <<"DecalComponent">>)

enable_asIs(decal) == decal

(* world.get_mut::<DecalComponent>(decal).unwrap().enabled = true *)
enable(decal) == [decal EXCEPT !.enabled = TRUE]

won_renumbered(world) ==
    Done([world EXCEPT !.next_entity = Cardinality(DOMAIN world.components)], 0)

(* if won: the World is taken out of Playing with replace(state, Close) and *)
(* moved into State::Done(world, 0)                                         *)
won(world) == Done(world, 0)

WinSystem_step_leavesClose(st, dtv) ==
    CASE st.tag = "Playing" ->
           IF \E c \in cameras(st.world) : goals(st.world, Loc(st.world, c)) # {}
           THEN {Close} ELSE {st}
      [] st.tag = "Done" -> {[st EXCEPT !.t = @ + dtv]}
      [] st.tag = "Close" -> {st}

WinSystem_step_noAccumulate(st, dtv) ==
    CASE st.tag = "Playing" ->
           IF cameras(st.world) = {} THEN {st}
           ELSE UNION {
                  LET camera == Loc(st.world, c)
                  IN  IF goals(st.world, camera) = {} THEN {st}
                      ELSE UNION {
                             LET world == delete_entity(st.world, goal)
                             IN  IF decals(world) = {} THEN {Playing(world)}
                                 ELSE {won(set_mut(world, "DecalComponent", decal,
                                          enable(world.components[decal]["DecalComponent"])))
                                         : decal \in decals(world)}
                             : goal \in goals(st.world, camera)}
                  : c \in cameras(st.world)}
      [] st.tag = "Done" -> {[st EXCEPT !.t = dtv]}
      [] st.tag = "Close" -> {st}

(* the states a WinSystem step can leave: iter().next() takes any first item *)
WinSystem_step(st, dtv) ==
    CASE st.tag = "Playing" ->
           IF cameras(st.world) = {} THEN {st}
           ELSE UNION {
                  LET camera == Loc(st.world, c)
                  IN  IF goals(st.world, camera) = {} THEN {st}
                      ELSE UNION {
                             LET world == delete_entity(st.world, goal)
                             IN  IF decals(world) = {} THEN {Playing(world)}
                                 ELSE {won(set_mut(world, "DecalComponent", decal,
                                          enable(world.components[decal]["DecalComponent"])))
                                         : decal \in decals(world)}
                             : goal \in goals(st.world, camera)}
                  : c \in cameras(st.world)}
      [] st.tag = "Done" -> {[st EXCEPT !.t = @ + dtv]}
      [] st.tag = "Close" -> {st}

----------------------------------------------------------------------------
(* ControlSystem (gui/controls.rs) *)

KeyPressed(scancode) == [kind |-> "KeyPressed", scancode |-> scancode]
KeyReleased(scancode) == [kind |-> "KeyReleased", scancode |-> scancode]
MouseMotion(x, y) == [kind |-> "MouseMotion", x |-> x, y |-> y]
CloseRequested == [kind |-> "CloseRequested"]
Resized == [kind |-> "Resized"]
OtherEvent == [kind |-> "Other"]

(* the events a poll returns here; scancode 1 is Escape and 30 is A *)
Events == {KeyPressed(1), KeyPressed(30), MouseMotion(-900, 0), CloseRequested}

IsCloseEvent(event) ==
    \/ event.kind = "KeyPressed" /\ event.scancode = 1
    \/ event.kind = "CloseRequested"

handle_event_noCloseRequest(acc, event) ==
    CASE event.kind = "KeyPressed" ->
           CASE event.scancode = 1 -> [acc EXCEPT !.state = Close]
             [] event.scancode = 17 -> [acc EXCEPT !.move_forward = 1]
             [] event.scancode = 30 -> [acc EXCEPT !.move_strafe = -1]
             [] event.scancode = 31 -> [acc EXCEPT !.move_forward = -1]
             [] event.scancode = 32 -> [acc EXCEPT !.move_strafe = 1]
             [] OTHER -> acc
      [] event.kind = "KeyReleased" ->
           CASE event.scancode \in {17, 31} -> [acc EXCEPT !.move_forward = 0]
             [] event.scancode \in {30, 32} -> [acc EXCEPT !.move_strafe = 0]
             [] OTHER -> acc
      [] event.kind = "MouseMotion" ->
           [acc EXCEPT !.move_yaw = @ - event.x, !.move_pitch = @ + event.y]
      [] OTHER -> acc

(* the body of "for event in events": one arm of the match per event *)
handle_event(acc, event) ==
    CASE event.kind = "KeyPressed" ->
           CASE event.scancode = 1 -> [acc EXCEPT !.state = Close]
             [] event.scancode = 17 -> [acc EXCEPT !.move_forward = 1]
             [] event.scancode = 30 -> [acc EXCEPT !.move_strafe = -1]
             [] event.scancode = 31 -> [acc EXCEPT !.move_forward = -1]
             [] event.scancode = 32 -> [acc EXCEPT !.move_strafe = 1]
             [] OTHER -> acc
      [] event.kind = "KeyReleased" ->
           CASE event.scancode \in {17, 31} -> [acc EXCEPT !.move_forward = 0]
             [] event.scancode \in {30, 32} -> [acc EXCEPT !.move_strafe = 0]
             [] OTHER -> acc
      [] event.kind = "MouseMotion" ->
           [acc EXCEPT !.move_yaw = @ - event.x, !.move_pitch = @ + event.y]
      [] event.kind = "CloseRequested" -> [acc EXCEPT !.state = Close]
      [] event.kind = "Resized" -> acc
      [] OTHER -> acc

RECURSIVE handle_events(_, _)
handle_events(acc, events) ==
    IF events = <<>> THEN acc
    ELSE handle_events(handle_event(acc, Head(events)), Tail(events))

blocked_never(world, new_loc) == FALSE

blocked_anyFlag(world, new_loc) ==
    \E e \in iter_entities(world, <<"CollisionComponent", "LocationComponent">>) :
        2 * DistSq(Loc(world, e).xyz, new_loc.xyz) < Sq(Loc(world, e).scale + new_loc.scale)

(* whether new_loc is within the minimal distance of an active collidable *)
blocked(world, new_loc) ==
    \E e \in iter_entities(world, <<"CollisionComponent", "LocationComponent">>) :
        /\ world.components[e]["CollisionComponent"].active
        /\ 2 * DistSq(Loc(world, e).xyz, new_loc.xyz) < Sq(Loc(world, e).scale + new_loc.scale)

(* "Apply motion to the camera, if no collisions occur", then the rotation *)
move_camera(world, camera, acc) ==
    LET old_loc == Unwrap(get_one(world, "LocationComponent", camera))
        moved == move_by(old_loc, acc.move_forward * (Unit \div 20),
                                  acc.move_strafe * (Unit \div 20))
        new_loc == IF blocked(world, moved) THEN old_loc ELSE moved
    IN  set_mut(world, "LocationComponent", camera,
                rotate_by(new_loc, acc.move_pitch, acc.move_yaw))

(* the outcomes of a step; the camera is the first item of iter() over     *)
(* [&CameraComponent]; expect("Camera didn't have a location?") panics     *)
(* when that entity has no LocationComponent, after the events are handled *)
ControlSystem_step(st, ctl, events) ==
    LET acc == handle_events([state |-> st, move_forward |-> ctl.move_forward,
                              move_strafe |-> ctl.move_strafe,
                              move_pitch |-> 0, move_yaw |-> 0], events)
        ctl2 == [move_forward |-> acc.move_forward, move_strafe |-> acc.move_strafe]
        cams == IF HasWorld(acc.state)
                THEN iter_entities(acc.state.world, <<"CameraComponent">>) ELSE {}
    IN  IF cams = {} THEN {[state |-> acc.state, control |-> ctl2, panicked |-> FALSE]}
        ELSE {IF IsSome(get_one(acc.state.world, "LocationComponent", camera))
              THEN [state |-> WithWorld(acc.state,
                                        move_camera(acc.state.world, camera, acc)),
                    control |-> ctl2, panicked |-> FALSE]
              ELSE [state |-> acc.state, control |-> ctl2, panicked |-> TRUE]
                 : camera \in cams}

----------------------------------------------------------------------------
(* The host loop (main.rs:66-95) *)

systems ==
    <<"ControlSystem", "GuiSystem", "HoldSystem", "SinkingDoorSystem", "SnagSystem",
      "SpinningKeySystem", "TheFloorIsLavaSystem", "UnlockSystem", "WinSystem">>

next_system_untilClose(i, st) == IF should_close(st) THEN Len(systems) + 1 ELSE i + 1

(* HList::map visits the systems one after the other, whatever the state *)
next_system(i, st) == i + 1

(* the elapsed times between two frames, as (as_secs, subsec_millis) *)
Elapsed == {<<0, 875>>, <<1, 250>>}

(* dt.subsec_millis() as u64 + 1_000_000 * dt.as_secs() *)
frame_dt(elapsed) == elapsed[2] + 1000000 * elapsed[1]

(* run is at its first loop test; no other part of the model is in use *)
RunStart ==
    /\ pc = "loop"
    /\ idx = 0
    /\ dt = 0
    /\ control = [move_forward |-> 0, move_strafe |-> 0]
    /\ frames = 0
    /\ stepped = <<>>
    /\ polled = [close |-> FALSE, before |-> "none"]
    /\ w = WorldDefault
    /\ issued = {}
    /\ deleted = {}
    /\ last = [op |-> "none"]
    /\ par = ParIdle
    /\ res = ResIdle

InitRun ==
    /\ \E map \in Maps : state = Playing(from_map(map))
    /\ RunStart

(* while !state.should_close(): the test fails and run returns *)
LoopExit ==
    /\ pc = "loop"
    /\ should_close(state)
    /\ pc' = "exit"
    /\ UNCHANGED <<state, idx, dt, control, frames, stepped, polled>>
    /\ UNCHANGED apiVars

(* the test holds: dt is measured and the first system is up.  The frames *)
(* of Playing are capped; those of Done end when the Done time is over.   *)
FrameStart ==
    /\ pc = "loop"
    /\ ~should_close(state)
    /\ frames < MaxFrames \/ state.tag = "Done"
    /\ \E elapsed \in Elapsed : dt' = frame_dt(elapsed)
    /\ pc' = "frame"
    /\ idx' = 1
    /\ frames' = frames + 1
    /\ stepped' = <<>>
    /\ UNCHANGED <<state, control, polled>>
    /\ UNCHANGED apiVars

(* the frame has come to the system called name *)
AtSystem(name) == pc = "frame" /\ idx \in DOMAIN systems /\ systems[idx] = name

(* SystemStepper::call has returned for the system at idx *)
Stepped(name) ==
    /\ pc = "frame"
    /\ idx \in DOMAIN systems
    /\ systems[idx] = name
    /\ stepped' = Append(stepped, [system |-> name, dt |-> dt])
    /\ IF next_system(idx, state') \in DOMAIN systems
       THEN idx' = next_system(idx, state') /\ UNCHANGED <<pc, dt>>
       ELSE idx' = 0 /\ pc' = "loop" /\ dt' = 0
    /\ UNCHANGED frames
    /\ UNCHANGED apiVars

(* what one poll_events can return *)
Polls == SeqsUpTo(Events, MaxEvents)

(* the camera of from_map has a location, which no system removes: the *)
(* expect of the step never panics here                                *)
ControlSystem ==
    /\ AtSystem("ControlSystem")
    /\ \E events \in Polls :
          /\ \E r \in ControlSystem_step(state, control, events) :
                ~r.panicked /\ state' = r.state /\ control' = r.control
          /\ polled' = [close |-> \E i \in DOMAIN events : IsCloseEvent(events[i]),
                        before |-> state.tag]
    /\ Stepped("ControlSystem")

(* rendering reads the World and changes nothing of the State *)
GuiSystem ==
    /\ AtSystem("GuiSystem")
    /\ UNCHANGED <<state, control, polled>>
    /\ Stepped("GuiSystem")

HoldSystem ==
    /\ AtSystem("HoldSystem")
    /\ IF HasWorld(state) /\ cameras(state.world) # {}
       THEN \E c \in cameras(state.world) :
               state' = WithWorld(state, HoldSystem_step(state.world, Loc(state.world, c)))
       ELSE state' = state
    /\ Stepped("HoldSystem")
    /\ UNCHANGED <<control, polled>>

SinkingDoorSystem ==
    /\ AtSystem("SinkingDoorSystem")
    /\ state' = IF HasWorld(state)
                THEN WithWorld(state, SinkingDoorSystem_step(state.world, dt))
                ELSE state
    /\ Stepped("SinkingDoorSystem")
    /\ UNCHANGED <<control, polled>>

SnagSystem ==
    /\ AtSystem("SnagSystem")
    /\ IF HasWorld(state) /\ cameras(state.world) # {}
       THEN \E c \in cameras(state.world) :
               state' = WithWorld(state, SnagSystem_step(state.world, Loc(state.world, c)))
       ELSE state' = state
    /\ Stepped("SnagSystem")
    /\ UNCHANGED <<control, polled>>

SpinningKeySystem ==
    /\ AtSystem("SpinningKeySystem")
    /\ state' = IF HasWorld(state)
                THEN WithWorld(state, SpinningKeySystem_step(state.world, dt))
                ELSE state
    /\ Stepped("SpinningKeySystem")
    /\ UNCHANGED <<control, polled>>

TheFloorIsLavaSystem ==
    /\ AtSystem("TheFloorIsLavaSystem")
    /\ state' = IF HasWorld(state)
                THEN WithWorld(state, TheFloorIsLavaSystem_step(state.world))
                ELSE state
    /\ Stepped("TheFloorIsLavaSystem")
    /\ UNCHANGED <<control, polled>>

UnlockSystem ==
    /\ AtSystem("UnlockSystem")
    /\ state' = IF HasWorld(state)
                THEN WithWorld(state, UnlockSystem_step(state.world))
                ELSE state
    /\ Stepped("UnlockSystem")
    /\ UNCHANGED <<control, polled>>

WinSystem ==
    /\ AtSystem("WinSystem")
    /\ state' \in WinSystem_step(state, dt)
    /\ Stepped("WinSystem")
    /\ UNCHANGED <<control, polled>>

Next ==
    \/ LoopExit
    \/ FrameStart
    \/ ControlSystem
    \/ GuiSystem
    \/ HoldSystem
    \/ SinkingDoorSystem
    \/ SnagSystem
    \/ SpinningKeySystem
    \/ TheFloorIsLavaSystem
    \/ UnlockSystem
    \/ WinSystem

Spec == InitRun /\ [][Next]_vars

(* the game started on a map whose goal is on the start tile; run is one *)
(* thread: while it can take a step it takes one                        *)
InitLive == InitRun /\ \E map \in Maps : map.goal = map.start /\ state = Playing(from_map(map))

SpecLive == InitLive /\ [][Next]_vars /\ WF_vars(Next)

(* a map (of a JSON file, where keys are listed apart from the tiles) with *)
(* the key 'a' on the tile of the door 'A' and the goal on the start tile  *)
DoorMap ==
    [dims |-> <<2, 1>>, tiles |-> <<Empty, Door(65)>>, start |-> <<0, 0>>,
     goal |-> <<0, 0>>, keys |-> << <<1, 0, 97>> >>, win_decal |-> "win.png"]

InitDoor == state = Playing(from_map(DoorMap)) /\ RunStart

SpecDoor == InitDoor /\ [][Next]_vars /\ WF_vars(Next)

----------------------------------------------------------------------------
(* The systems called one at a time, as System::step(&mut state, dt) on a *)
(* World built with new_entity: a camera and a few doors, keys and rocks  *)
(* placed at, just inside and away from the collision distances.          *)

(* the camera of from_map on start tile (0, 0) *)
CameraAt == <<Unit \div 2, Unit \div 4, Unit \div 2>>

Player ==
    [name |-> "player",
     components |-> <<CameraComponent, LocationComponent(CameraAt, <<0, 0, 0>>, Unit \div 5)>>]

(* where a door of scale 1.0 stops a forward step of the camera, and the *)
(* same place one unit further, where it is exactly at the distance      *)
DoorAt == <<CameraAt[1] + 1499, CameraAt[2], CameraAt[3] + 1625>>
DoorEdge == <<CameraAt[1] + 1500, CameraAt[2], CameraAt[3] + 1625>>

DoorProp(letter, at, active) ==
    [name |-> "door",
     components |-> <<RenderComponent("door"), LocationComponent(at, <<0, 0, 0>>, Unit),
                      CollisionComponent(active), DoorComponent(letter)>>]

KeyProp(letter, at, held) ==
    [name |-> "key",
     components |-> <<RenderComponent("key"),
                      LocationComponent(at, <<0, 0, 0>>, Unit \div 10),
                      KeyComponent(letter, held)>>]

RockProp(height) ==
    [name |-> "rock",
     components |-> <<RenderComponent("wall"),
                      LocationComponent(<<0, height, 0>>, <<0, 0, 0>>, Unit)>>]

(* letters are code points: 65 'A', 97 'a', 98 'b' *)
Props ==
    << DoorProp(65, DoorAt, TRUE),
       DoorProp(97, DoorEdge, TRUE),
       DoorProp(65, DoorAt, FALSE),
       [name |-> "door", components |-> <<DoorComponent(65), CollisionComponent(FALSE)>>],
       KeyProp(97, <<DoorAt[1] + 1374, DoorAt[2], DoorAt[3] + 1375>>, FALSE),
       KeyProp(97, <<DoorAt[1] + 1375, DoorAt[2], DoorAt[3] + 1375>>, FALSE),
       KeyProp(98, <<DoorAt[1] + 1374, DoorAt[2], DoorAt[3] + 1375>>, FALSE),
       KeyProp(65, <<DoorAt[1] + 1374, DoorAt[2], DoorAt[3] + 1375>>, FALSE),
       KeyProp(97, <<CameraAt[1] + 374, CameraAt[2], CameraAt[3] + 375>>, FALSE),
       KeyProp(97, <<CameraAt[1] + 375, CameraAt[2], CameraAt[3] + 375>>, FALSE),
       KeyProp(97, <<0, 0, 0>>, TRUE),
       RockProp(0 - (3 * Unit) \div 2),
       RockProp(0 - Unit) >>

(* the props of the set ps, in the order of Props *)
PropList(ps) == SelectSeq(Props, LAMBDA p : p \in ps)

SysWorlds ==
    {new_entities(WorldDefault, <<Player>> \o PropList(ps)) :
        ps \in {x \in SUBSET Range(Props) : Cardinality(x) <= MaxProps}}

(* the elapsed times the steps are called with, in ms *)
SysDts == {875, 3750}

(* the polls of the ControlSystem steps; scancode 17 is W *)
SysPolls ==
    { <<>>, <<KeyPressed(17)>>, <<MouseMotion(-900, 0)>>,
      <<KeyPressed(17), MouseMotion(-900, 0)>> }

InitSys ==
    /\ state \in {Playing(world) : world \in SysWorlds}
    /\ pc = "test"
    /\ idx = 0
    /\ dt = 0
    /\ control = [move_forward |-> 0, move_strafe |-> 0]
    /\ frames = 0
    /\ stepped = <<>>
    /\ polled = [close |-> FALSE, before |-> "none"]
    /\ w = WorldDefault
    /\ issued = {}
    /\ deleted = {}
    /\ last = [op |-> "none"]
    /\ par = ParIdle
    /\ res = ResIdle

(* system.step(&mut state, dtv) has returned, or has panicked and ended *)
(* the thread; input is what it polled                                 *)
Called(name, dtv, input, panicked) ==
    /\ pc = "test"
    /\ frames < MaxSteps
    /\ frames' = frames + 1
    /\ dt' = dtv
    /\ last' = [op |-> name, before |-> state, dt |-> dtv, input |-> input,
                panicked |-> panicked]
    /\ pc' = IF panicked THEN "panic" ELSE pc
    /\ UNCHANGED <<idx, stepped, polled, w, issued, deleted, par, res>>

CallControlSystem ==
    /\ pc = "test"
    /\ \E events \in SysPolls :
          \E r \in ControlSystem_step(state, control, events) :
              /\ state' = r.state
              /\ control' = r.control
              /\ Called("ControlSystem", 0, events, r.panicked)

CallHoldSystem ==
    /\ pc = "test"
    /\ IF HasWorld(state) /\ cameras(state.world) # {}
       THEN IF HoldSystem_panics(state.world)
            THEN state' = state /\ Called("HoldSystem", 0, <<>>, TRUE)
            ELSE /\ \E c \in cameras(state.world) :
                       state' = WithWorld(state,
                                    HoldSystem_step(state.world, Loc(state.world, c)))
                 /\ Called("HoldSystem", 0, <<>>, FALSE)
       ELSE state' = state /\ Called("HoldSystem", 0, <<>>, FALSE)
    /\ UNCHANGED control

CallSinkingDoorSystem ==
    /\ pc = "test"
    /\ \E dtv \in SysDts :
          /\ state' = IF HasWorld(state)
                      THEN WithWorld(state, SinkingDoorSystem_step(state.world, dtv))
                      ELSE state
          /\ Called("SinkingDoorSystem", dtv, <<>>, FALSE)
    /\ UNCHANGED control

CallSnagSystem ==
    /\ pc = "test"
    /\ IF HasWorld(state) /\ cameras(state.world) # {}
       THEN \E c \in cameras(state.world) :
               state' = WithWorld(state, SnagSystem_step(state.world, Loc(state.world, c)))
       ELSE state' = state
    /\ Called("SnagSystem", 0, <<>>, FALSE)
    /\ UNCHANGED control

CallTheFloorIsLavaSystem ==
    /\ pc = "test"
    /\ state' = IF HasWorld(state)
                THEN WithWorld(state, TheFloorIsLavaSystem_step(state.world))
                ELSE state
    /\ Called("TheFloorIsLavaSystem", 0, <<>>, FALSE)
    /\ UNCHANGED control

CallUnlockSystem ==
    /\ pc = "test"
    /\ state' = IF HasWorld(state)
                THEN WithWorld(state, UnlockSystem_step(state.world))
                ELSE state
    /\ Called("UnlockSystem", 0, <<>>, FALSE)
    /\ UNCHANGED control

NextSys ==
    \/ CallControlSystem
    \/ CallHoldSystem
    \/ CallSinkingDoorSystem
    \/ CallSnagSystem
    \/ CallTheFloorIsLavaSystem
    \/ CallUnlockSystem

SpecSys == InitSys /\ [][NextSys]_vars

----------------------------------------------------------------------------
(* The systems that look for a camera, a goal or the win decal, called on *)
(* Worlds where some of these are missing.                                *)

(* an entity that is a camera without a location *)
Lens == [name |-> "player", components |-> <<CameraComponent>>]

(* the goal of from_map, scale 1.0 *)
GoalProp(at) ==
    [name |-> "goal",
     components |-> <<GoalComponent, LocationComponent(at, <<0, 0, 0>>, Unit)>>]

(* a goal out of the reach of the camera *)
GoalAway == <<CameraAt[1] + 2 * Unit, Unit \div 2, CameraAt[3]>>

WinDecal == [name |-> "win", components |-> <<DecalComponent(FALSE, "win.png")>>]

MissProps ==
    << Player,
       Lens,
       GoalProp(<<CameraAt[1], Unit \div 2, CameraAt[3]>>),
       GoalProp(GoalAway),
       WinDecal,
       KeyProp(97, <<0, 0, 0>>, TRUE),
       KeyProp(97, <<CameraAt[1] + 374, CameraAt[2], CameraAt[3] + 375>>, FALSE),
       [name |-> "key", components |-> <<KeyComponent(97, TRUE)>>] >>

MissList(ps) == SelectSeq(MissProps, LAMBDA p : p \in ps)

MissWorlds ==
    {new_entities(WorldDefault, MissList(ps)) :
        ps \in {x \in SUBSET Range(MissProps) : Cardinality(x) <= MaxProps + 1}}

InitMiss ==
    /\ state \in {Playing(world) : world \in MissWorlds}
                 \union {Done(world, 0) : world \in MissWorlds}
    /\ pc = "test"
    /\ idx = 0
    /\ dt = 0
    /\ control = [move_forward |-> 0, move_strafe |-> 0]
    /\ frames = 0
    /\ stepped = <<>>
    /\ polled = [close |-> FALSE, before |-> "none"]
    /\ w = WorldDefault
    /\ issued = {}
    /\ deleted = {}
    /\ last = [op |-> "none"]
    /\ par = ParIdle
    /\ res = ResIdle

CallWinSystem ==
    /\ pc = "test"
    /\ \E dtv \in SysDts :
          /\ state' \in WinSystem_step(state, dtv)
          /\ Called("WinSystem", dtv, <<>>, FALSE)
    /\ UNCHANGED control

NextMiss ==
    \/ CallControlSystem
    \/ CallHoldSystem
    \/ CallSnagSystem
    \/ CallWinSystem

SpecMiss == InitMiss /\ [][NextMiss]_vars

----------------------------------------------------------------------------
(* LocationComponent::collides called on two locations *)

(* coordinates that put two spheres inside, at and outside the distance *)
ColCoords == {0, 250, 374, 375, 376, 1375, 1500}

(* the scales of from_map: a key 0.1, the camera 0.2, a wall or door 1.0 *)
ColScales == {Unit \div 10, Unit \div 5, Unit}

ColLocations ==
    {LocationComponent(<<x, 0, z>>, <<0, 0, 0>>, scale) :
        x \in ColCoords, z \in ColCoords, scale \in ColScales}

InitCol ==
    /\ RunIdle
    /\ w = WorldDefault
    /\ issued = {}
    /\ deleted = {}
    /\ \E self \in ColLocations, other \in ColLocations :
          last = [op |-> "args", self |-> self, other |-> other]
    /\ par = ParIdle
    /\ res = ResIdle

Collides ==
    /\ last.op = "args"
    /\ last' = [op |-> "collides", self |-> last.self, other |-> last.other,
                result |-> collides(last.self, last.other)]
    /\ UNCHANGED <<w, issued, deleted, par, res>>
    /\ UNCHANGED runVars

NextCol == Collides

SpecCol == InitCol /\ [][NextCol]_vars

----------------------------------------------------------------------------
(* The asset caches (gui/model.rs, util.rs): Material::load_mtl and the   *)
(* two load_texture functions, called from several threads.  A path is a  *)
(* sequence of components; a value is the index of its record in          *)
(* res.vals, and an Arc to it is a count in the held field of that record. *)

MaxLoads == 3

Loaders == {"main", "worker"}

MATERIAL_CACHE == "MATERIAL_CACHE"
TEXTURE_CACHE == "TEXTURE_CACHE"
util_TEXTURE_CACHE == "util::TEXTURE_CACHE"

Caches == {MATERIAL_CACHE, TEXTURE_CACHE, util_TEXTURE_CACHE}

(* the files on disk, by canonical path *)
Files == { <<"assets", "wall.mtl">>, <<"assets", "wall.png">> }

(* std::fs::canonicalize: the "." components go; Err where no file is *)
canonicalize(path) ==
    LET c == SelectSeq(path, LAMBDA x : x # ".")
    IN  IF c \in Files THEN Some(c) ELSE None

(* Path::parent: None for the empty path *)
parent(path) == IF path = <<>> THEN None ELSE Some(SubSeq(path, 1, Len(path) - 1))

(* base_path.parent().map(|p| p.join(tex_path)).unwrap_or_else(|| tex_path) *)
texture_path(base_path, tex_path) ==
    IF IsSome(parent(base_path)) THEN Unwrap(parent(base_path)) \o tex_path ELSE tex_path

(* the map_Kd of the material file *)
map_kd(path) == <<"wall.png">>

(* the calls the threads make: load_mtl(path), and load_texture("", path) *)
(* as World::from_map calls it for the win decal                          *)
LoadCalls ==
    { [cache |-> MATERIAL_CACHE, path |-> <<"assets", "wall.mtl">>],
      [cache |-> MATERIAL_CACHE, path |-> <<"assets", ".", "wall.mtl">>],
      [cache |-> util_TEXTURE_CACHE, path |-> texture_path(<<>>, <<"assets", "wall.png">>)],
      [cache |-> util_TEXTURE_CACHE,
       path |-> texture_path(<<>>, <<"assets", ".", "wall.png">>)],
      [cache |-> util_TEXTURE_CACHE, path |-> texture_path(<<>>, <<"assets", "none.png">>)] }

NoHolders == [t \in Loaders |-> 0]

ThreadIdle == [pc |-> "idle", cache |-> "", path |-> <<>>, mtl |-> <<>>]

(* a strong count above zero: an Arc held by a thread, or by a Material *)
(* that is itself held                                                  *)
live(vals, id) ==
    \/ \E t \in Loaders : vals[id].held[t] > 0
    \/ \E m \in DOMAIN vals :
          vals[m].owns = id /\ \E t \in Loaders : vals[m].held[t] > 0

upgrade_never(vals, id) == None

(* Weak::upgrade *)
upgrade(vals, id) == IF live(vals, id) THEN Some(id) ELSE None

(* cache.get(&path).and_then(Weak::upgrade) *)
cache_get(r, cache, path) ==
    IF r.cache[cache][path] = 0 THEN None ELSE upgrade(r.vals, r.cache[cache][path])

(* the MutexGuards of thread t are dropped as its calls return *)
unlock(r, t) ==
    [r EXCEPT !.lock = [c \in Caches |-> IF r.lock[c] = t THEN "free" ELSE r.lock[c]],
              !.thr[t] = ThreadIdle]

(* the call of thread t returns Ok(id): the caller holds one more Arc *)
return_ok(r, t, id) == unlock([r EXCEPT !.vals[id].held[t] = @ + 1], t)

(* Arc::new(Material {..}); cache.insert(path, Arc::downgrade(&mtl)); Ok(mtl) *)
insert_material(r, t, texture) ==
    LET id == Len(r.vals) + 1
        new == [cache |-> MATERIAL_CACHE, path |-> r.thr[t].mtl, owns |-> texture,
                held |-> NoHolders]
    IN  return_ok([r EXCEPT !.vals = Append(@, new),
                            !.cache[MATERIAL_CACHE][r.thr[t].mtl] = id], t, id)

(* load_texture of thread t has the texture: it returns it to its caller, *)
(* which is load_mtl when the thread came through it                      *)
texture_ready(r, t, id) ==
    IF r.thr[t].mtl = <<>> THEN return_ok(r, t, id) ELSE insert_material(r, t, id)

InitCache ==
    /\ RunIdle
    /\ w = WorldDefault
    /\ issued = {}
    /\ deleted = {}
    /\ last = [op |-> "none"]
    /\ par = ParIdle
    /\ res = [active |-> TRUE,
              cache |-> [c \in Caches |-> [f \in Files |-> 0]],
              vals |-> <<>>,
              lock |-> [c \in Caches |-> "free"],
              thr |-> [t \in Loaders |-> ThreadIdle],
              calls |-> 0]

(* a thread enters load_mtl or util::load_texture: CACHE.lock().unwrap() *)
CallLoad ==
    /\ res.active
    /\ res.calls < MaxLoads
    /\ \E t \in Loaders, call \in LoadCalls :
          /\ res.thr[t].pc = "idle"
          /\ res.lock[call.cache] = "free"
          /\ res' = [res EXCEPT !.calls = @ + 1,
                                !.lock[call.cache] = t,
                                !.thr[t] = [pc |-> "locked", cache |-> call.cache,
                                            path |-> call.path, mtl |-> <<>>]]
    /\ UNCHANGED <<w, issued, deleted, last, par>>
    /\ UNCHANGED runVars

(* canonicalize(path)?, then the cache lookup: a hit returns the value *)
Lookup ==
    /\ res.active
    /\ \E t \in Loaders :
          /\ res.thr[t].pc = "locked"
          /\ LET c == res.thr[t].cache
                 path == canonicalize(res.thr[t].path)
             IN  IF ~IsSome(path)
                 THEN /\ res' = unlock(res, t)
                      /\ last' = [op |-> "load", thread |-> t, result |-> "err"]
                 ELSE LET found == cache_get(res, c, Unwrap(path))
                      IN  IF IsSome(found)
                          THEN /\ res' = (IF c = MATERIAL_CACHE
                                       THEN return_ok(res, t, Unwrap(found))
                                       ELSE texture_ready(res, t, Unwrap(found)))
                               /\ last' = [op |-> "load", thread |-> t, result |-> "hit"]
                          ELSE /\ res' = [res EXCEPT !.thr[t].pc = "open",
                                                     !.thr[t].path = Unwrap(path)]
                               /\ UNCHANGED last
    /\ UNCHANGED <<w, issued, deleted, par>>
    /\ UNCHANGED runVars

(* the file is opened and read: an error returns with nothing inserted; a *)
(* material goes on to load_texture(&path, tex_path) with its lock held;  *)
(* a texture is constructed and inserted                                  *)
Open ==
    /\ res.active
    /\ \E t \in Loaders, ok \in BOOLEAN :
          /\ res.thr[t].pc = "open"
          /\ LET c == res.thr[t].cache
                 path == res.thr[t].path
             IN  IF ~ok
                 THEN /\ res' = unlock(res, t)
                      /\ last' = [op |-> "load", thread |-> t, result |-> "err"]
                 ELSE IF c = MATERIAL_CACHE
                 THEN /\ res.lock[TEXTURE_CACHE] = "free"
                      /\ res' = [res EXCEPT !.lock[TEXTURE_CACHE] = t,
                                    !.thr[t] = [pc |-> "locked", cache |-> TEXTURE_CACHE,
                                                path |-> texture_path(path, map_kd(path)),
                                                mtl |-> path]]
                      /\ UNCHANGED last
                 ELSE LET id == Len(res.vals) + 1
                          new == [cache |-> c, path |-> path, owns |-> 0,
                                  held |-> NoHolders]
                      IN  /\ res' = texture_ready([res EXCEPT !.vals = Append(@, new),
                                                              !.cache[c][path] = id], t, id)
                          /\ last' = [op |-> "load", thread |-> t, result |-> "built"]
    /\ UNCHANGED <<w, issued, deleted, par>>
    /\ UNCHANGED runVars

(* a thread drops one of the Arcs it was given *)
DropArc ==
    /\ res.active
    /\ \E t \in Loaders, id \in DOMAIN res.vals :
          /\ res.thr[t].pc = "idle"
          /\ res.vals[id].held[t] > 0
          /\ res' = [res EXCEPT !.vals[id].held[t] = @ - 1]
          /\ last' = [op |-> "drop", thread |-> t, result |-> "ok"]
    /\ UNCHANGED <<w, issued, deleted, par>>
    /\ UNCHANGED runVars

NextCache == CallLoad \/ Lookup \/ Open \/ DropArc

SpecCache == InitCache /\ [][NextCache]_vars

----------------------------------------------------------------------------
(* Map::from_str (map.rs): the legacy map text, a sequence of code points: *)
(* "<w> <h>" and a line feed, then the tile characters of the rows.        *)

MaxDim == 2

(* s.find(ch): the index of the first ch, counted from 0 *)
find(s, ch) ==
    IF \E i \in DOMAIN s : s[i] = ch
    THEN Some((CHOOSE i \in DOMAIN s : s[i] = ch /\ \A j \in 1..(i - 1) : s[j] # ch) - 1)
    ELSE None

(* str::parse::<usize> of decimal digits *)
RECURSIVE parse_usize(_)
parse_usize(digits) ==
    IF digits = <<>> \/ \E i \in DOMAIN digits : digits[i] \notin 48..57 THEN None
    ELSE IF Len(digits) = 1 THEN Some(digits[1] - 48)
    ELSE Some(10 * Unwrap(parse_usize(SubSeq(digits, 1, Len(digits) - 1)))
              + digits[Len(digits)] - 48)

(* str::trim_left *)
RECURSIVE trim_left(_)
trim_left(s) ==
    IF s # <<>> /\ Head(s) \in {9, 10, 11, 12, 13, 32} THEN trim_left(Tail(s)) ELSE s

MapErr(error) == [ok |-> FALSE, error |-> error]

(* parse_tile(&mut map, ch, x, y): the map after the call, or the error *)
parse_tile(map, ch, x, y) ==
    CASE ch = 48 -> [ok |-> TRUE, map |-> [map EXCEPT !.tiles = Append(@, Empty)]]
      [] ch = 71 -> [ok |-> TRUE, map |-> [map EXCEPT !.goal = <<x, y>>,
                                                      !.tiles = Append(@, Empty)]]
      [] ch = 83 -> [ok |-> TRUE, map |-> [map EXCEPT !.start = <<x, y>>,
                                                      !.tiles = Append(@, Empty)]]
      [] ch \in 65..69 -> [ok |-> TRUE, map |-> [map EXCEPT !.tiles = Append(@, Door(ch))]]
      [] ch \in 97..101 -> [ok |-> TRUE, map |-> [map EXCEPT !.keys = Append(@, <<x, y, ch>>),
                                                              !.tiles = Append(@, Empty)]]
      [] ch = 87 -> [ok |-> TRUE, map |-> [map EXCEPT !.tiles = Append(@, Wall)]]
      [] ch \in {10, 13, 9, 32} -> [ok |-> TRUE, map |-> map]
      [] OTHER -> MapErr("Invalid tile")

(* the while loop of from_str and the check of what is left after it; x *)
(* advances on every character, whitespace included                    *)
RECURSIVE from_str_body(_, _, _, _)
from_str_body(map, rest, x, y) ==
    IF Len(map.tiles) = map.dims[1] * map.dims[2]
    THEN IF trim_left(rest) = <<>> THEN [ok |-> TRUE, map |-> map]
         ELSE MapErr("Expected EOF")
    ELSE IF rest = <<>> THEN MapErr("Unexpected EOF while parsing map body")
    ELSE LET r == parse_tile(map, Head(rest), x, y)
         IN  IF ~r.ok THEN r
             ELSE IF x + 1 > map.dims[1]
                  THEN from_str_body(r.map, Tail(rest), 0, y + 1)
                  ELSE from_str_body(r.map, Tail(rest), x + 1, y)

from_str(s) ==
    LET w_end == find(s, 32)
    IN  IF ~IsSome(w_end) THEN MapErr("panic")
        ELSE
        LET w_end_idx == Unwrap(w_end)
            h_end == find(SubSeq(s, w_end_idx + 1, Len(s)), 10)
        IN  IF ~IsSome(h_end) THEN MapErr("panic")
            ELSE
            LET h_end_idx == Unwrap(h_end) + w_end_idx
                width == parse_usize(SubSeq(s, 1, w_end_idx))
                height == parse_usize(SubSeq(s, w_end_idx + 2, h_end_idx))
            IN  IF ~IsSome(width) \/ ~IsSome(height) THEN MapErr("ParseIntError")
                ELSE from_str_body([dims |-> <<Unwrap(width), Unwrap(height)>>,
                                    tiles |-> <<>>, start |-> <<0, 0>>, goal |-> <<0, 0>>,
                                    keys |-> <<>>, win_decal |-> "win.png"],
                                   SubSeq(s, h_end_idx + 2, Len(s)), 0, 0)

(* what ends a row in the file: nothing, a line feed, or CR LF *)
RowEnds == { <<>>, <<10>>, <<13, 10>> }

(* the tile characters of a grid of cells 0..n-1: S at cell st, G at cell *)
(* gl, the key 'a' at cell ky (none when ky = n), '0' elsewhere           *)
TileChars(n, st, gl, ky) ==
    [i \in 1..n |-> CASE i - 1 = st -> 83 [] i - 1 = gl -> 71 [] i - 1 = ky -> 97
                       [] OTHER -> 48]

RECURSIVE MapRows(_, _, _)
MapRows(chars, width, end) ==
    IF chars = <<>> THEN <<>>
    ELSE SubSeq(chars, 1, width) \o end
         \o MapRows(SubSeq(chars, width + 1, Len(chars)), width, end)

MapText(width, height, chars, end) ==
    <<48 + width, 32, 48 + height, 10>> \o MapRows(chars, width, end)

MapTexts ==
    UNION { { MapText(d[1], d[2], TileChars(d[1] * d[2], p[1], p[2], p[3]), end) :
                p \in {q \in (0..(d[1] * d[2] - 1)) \X (0..(d[1] * d[2] - 1))
                                \X (0..(d[1] * d[2])) :
                          q[1] # q[2] /\ q[3] \notin {q[1], q[2]}},
                end \in RowEnds }
            : d \in (1..MaxDim) \X (1..MaxDim) }

InitMap ==
    /\ RunIdle
    /\ w = WorldDefault
    /\ issued = {}
    /\ deleted = {}
    /\ \E text \in MapTexts : last = [op |-> "text", text |-> text]
    /\ par = ParIdle
    /\ res = ResIdle

(* read_file_and_parse_to, then World::from_map on the Map it returns *)
FromMapFile ==
    /\ last.op = "text"
    /\ LET r == from_str(last.text)
       IN  /\ last' = [op |-> "from_str", text |-> last.text, result |-> r]
           /\ w' = IF r.ok THEN from_map(r.map) ELSE w
    /\ UNCHANGED <<issued, deleted, par, res>>
    /\ UNCHANGED runVars

NextMap == FromMapFile

SpecMap == InitMap /\ [][NextMap]_vars

----------------------------------------------------------------------------
(* Properties of the World API *)

PropSets == SeqsUpTo(TestTypes, 3)

HasAll(world, C, entity) ==
    /\ entity \in DOMAIN world.components
    /\ \A i \in DOMAIN C : C[i] \in DOMAIN world.components[entity]

GetIsAllOrNothing(world, C, entity, r) ==
    /\ IsSome(r) <=> HasAll(world, C, entity)
    /\ ~HasAll(world, C, entity) => r = None
    /\ IsSome(r) =>
          /\ Len(Unwrap(r)) = Len(C)
          /\ \A i \in DOMAIN C : Unwrap(r)[i] = world.components[entity][C[i]]

(* C4: get::<Set>(entity) is Some, holding the entity's component of every *)
(* type of Set in the order of Set, exactly when the entity is live and   *)
(* has all the types of Set; for a missing entity, or one lacking any     *)
(* type of Set, it is None, never a shorter list.                          *)
C4_GetAllOrNothing ==
    /\ \A entity \in EntityUniverse, C \in PropSets :
          GetIsAllOrNothing(w, C, entity, get(w, C, entity))
    /\ last.op = "get" => GetIsAllOrNothing(w, last.set, last.entity, last.result)

C4_Witness ==
    /\ last.op = "get"
    /\ Len(last.set) = 2
    /\ last.set[1] # last.set[2]
    /\ IsSome(last.result)
    /\ \E e \in DOMAIN w.components :
          /\ last.set[1] \in DOMAIN w.components[e]
          /\ last.set[2] \notin DOMAIN w.components[e]

Count(s, entity) == Cardinality({i \in DOMAIN s : s[i].entity = entity})

IterYieldsExactly(world, C, s) ==
    /\ \A entity \in EntityUniverse :
          Count(s, entity) = IF HasAll(world, C, entity) THEN 1 ELSE 0
    /\ \A i \in DOMAIN s :
          /\ s[i].entity \in DOMAIN world.components
          /\ Some(s[i].cs) = get(world, C, s[i].entity)
          /\ Len(s[i].cs) = Len(C)
          /\ \A j \in DOMAIN C : s[i].cs[j] = world.components[s[i].entity][C[j]]

(* C5: whatever order the HashMap yields its keys in, iter::<Set>() yields *)
(* an entity once if it is live and has every type of Set and not at all  *)
(* otherwise, each paired with the components get::<Set> returns for it.  *)
C5_IterExactlyAll ==
    /\ \A C \in PropSets : \A s \in iter(w, C) : IterYieldsExactly(w, C, s)
    /\ last.op = "iter" => IterYieldsExactly(w, last.set, last.result)

C5_Witness ==
    /\ last.op = "iter"
    /\ Len(last.set) = 2
    /\ last.set[1] # last.set[2]
    /\ Len(last.result) = 1
    /\ Cardinality(DOMAIN w.components) = 2
    /\ \E e \in DOMAIN w.components : last.set[1] \in DOMAIN w.components[e]
                                     /\ last.set[2] \notin DOMAIN w.components[e]

(* C6: a delete_entity(e) step removes e and nothing else: afterwards get, *)
(* get_one and get_mut on e are None and no iter or par_iter item is e,   *)
(* every other entity keeps its components, the id counter is untouched,  *)
(* and if e was not in the world the component store is unchanged; an     *)
(* entity deleted while live is in no later component store.              *)
C6_DeleteStep ==
    (last'.op = "delete_entity") =>
        LET e == last'.entity
        IN  /\ e \notin DOMAIN w'.components
            /\ e \notin par_keys(w')
            /\ \A C \in PropSets :
                  /\ get(w', C, e) = None
                  /\ \A s \in iter(w', C) : \A i \in DOMAIN s : s[i].entity # e
            /\ \A T \in TestTypes : get_one(w', T, e) = None /\ get_mut(w', T, e) = None
            /\ \A x \in EntityUniverse \ {e} :
                  /\ x \in DOMAIN w'.components <=> x \in DOMAIN w.components
                  /\ x \in DOMAIN w.components => w'.components[x] = w.components[x]
            /\ w'.next_entity = w.next_entity
            /\ e \notin DOMAIN w.components => w'.components = w.components

C6_DeleteExactly ==
    /\ [][C6_DeleteStep]_vars
    /\ [](deleted \cap DOMAIN w.components = {})

C6_Witness ==
    /\ last.op = "delete_entity"
    /\ last.entity \in deleted
    /\ Cardinality(DOMAIN w.components) = 1
    /\ \E x \in DOMAIN w.components : DOMAIN w.components[x] # {}

(* C20: a delete_entity call on an entity that was deleted before panics. *)
C20_DeleteDeletedPanics ==
    [][(last'.op = "delete_entity" /\ last' # last /\ last'.entity \in deleted)
          => last'.panicked]_vars

(* C7: the id counter never decreases and counts the distinct entities    *)
(* new_entity has returned; a new_entity step returns an entity that was  *)
(* never returned before (deleted or not) and leaves the components of    *)
(* every existing entity as they were.                                     *)
C7_NewStep ==
    /\ w'.next_entity >= w.next_entity
    /\ w'.next_entity # w.next_entity =>
          /\ last'.op = "new_entity"
          /\ last'.entity \notin issued
          /\ last'.entity \notin deleted
          /\ last'.entity \in DOMAIN w'.components
          /\ \A x \in DOMAIN w.components :
                /\ x \in DOMAIN w'.components
                /\ w'.components[x] = w.components[x]

C7_EntitiesNeverReused ==
    /\ [][C7_NewStep]_vars
    /\ [](Cardinality(issued) = w.next_entity)

C7_Witness ==
    /\ last.op = "new_entity"
    /\ deleted # {}
    /\ w.next_entity = MaxEntities
    /\ last.entity \in DOMAIN w.components

(* C8: when a par_iter::<Set>() has finished, whatever the workers and the *)
(* interleaving of their work, the items it produced are those of         *)
(* iter::<Set>() on the same world, each produced once.                    *)
C8_ParIterSameAsIter ==
    last.op = "par_iter" =>
        /\ \A i, j \in DOMAIN last.result :
              last.result[i].entity = last.result[j].entity => i = j
        /\ \A s \in iter(w, last.set) :
              /\ Range(s) = Range(last.result)
              /\ Len(s) = Len(last.result)

C8_Witness ==
    /\ last.op = "par_iter"
    /\ Len(last.set) = 2
    /\ Len(last.result) = 1
    /\ Cardinality(DOMAIN w.components) = 2

----------------------------------------------------------------------------
(* Properties of the State machine and of the host loop *)

(* the camera's sphere collides with the sphere of a goal *)
CameraAtGoal(world) ==
    \E c \in DOMAIN world.components, g \in DOMAIN world.components :
        /\ {"CameraComponent", "LocationComponent"} \subseteq DOMAIN world.components[c]
        /\ {"GoalComponent", "LocationComponent"} \subseteq DOMAIN world.components[g]
        /\ collides(Loc(world, c), Loc(world, g))

C1_Step ==
    /\ state.tag = "Done" => state'.tag \in {"Done", "Close"}
    /\ state.tag = "Close" => state'.tag = "Close"
    /\ state.tag = "Playing" /\ state'.tag = "Done" =>
          AtSystem("WinSystem") /\ CameraAtGoal(state.world) /\ state'.t = 0
    /\ state.tag # "Close" /\ state'.tag = "Close" =>
          AtSystem("ControlSystem") /\ polled'.close

(* C1: every step keeps the State or takes it from Playing to Done (a     *)
(* WinSystem step with the camera at the goal), or from Playing or Done   *)
(* to Close (a ControlSystem step that polled an escape press or a close  *)
(* request); Done never becomes Playing again and Close stays Close.      *)
C1_StateTransitions == [][C1_Step]_vars

C1_Witness ==
    /\ state.tag = "Done"
    /\ state.t > 0
    /\ pc = "loop"
    /\ frames >= 3

Goals(world) == {e \in DOMAIN world.components : "GoalComponent" \in DOMAIN world.components[e]}

Decals(world) == {e \in DOMAIN world.components : "DecalComponent" \in DOMAIN world.components[e]}

C2_Step ==
    (AtSystem("WinSystem") /\ state.tag = "Playing" /\ stepped' # stepped) =>
        IF CameraAtGoal(state.world)
        THEN /\ state'.tag = "Done"
             /\ state'.t = 0
             /\ Goals(state.world) # {}
             /\ Goals(state'.world) = {}
             /\ DOMAIN state'.world.components =
                    DOMAIN state.world.components \ Goals(state.world)
             /\ Decals(state.world) # {}
             /\ \A d \in Decals(state.world) :
                    state'.world.components[d]["DecalComponent"].enabled
        ELSE state' = state

(* C2: a WinSystem step in Playing with the camera's sphere colliding with *)
(* the goal's deletes the goal entity, leaves the win decal enabled and   *)
(* the state Done with time 0; with the camera colliding with no goal it  *)
(* leaves the state, and so every entity and flag, as it was.             *)
C2_WinStep == [][C2_Step]_vars

C2_Witness ==
    /\ state.tag = "Done"
    /\ state.t = 0
    /\ pc = "loop"
    /\ frames >= 4
    /\ Goals(state.world) = {}
    /\ \A d \in Decals(state.world) : state.world.components[d]["DecalComponent"].enabled

(* C3: should_close is true in Close and in Done with more than 3500 ms   *)
(* accumulated, and false in Playing and in Done with 3500 ms or less.    *)
C3_ShouldClose ==
    /\ state.tag = "Close" => should_close(state)
    /\ state.tag = "Done" /\ state.t > 3500 => should_close(state)
    /\ state.tag = "Done" /\ state.t <= 3500 => ~should_close(state)
    /\ state.tag = "Playing" => ~should_close(state)
    /\ pc = "exit" => state.tag = "Close" \/ (state.tag = "Done" /\ state.t > 3500)

C3_Witness ==
    /\ state.tag = "Done"
    /\ state.t = 3500
    /\ pc = "loop"
    /\ ~should_close(state)

C9_Step ==
    polled.close =>
        /\ frames' = frames
        /\ state'.tag = "Close"
        /\ pc = "loop" => pc' = "exit"

(* C9: once a poll of ControlSystem has held an escape press or a close   *)
(* request, with the state Playing or Done, the state is Close after that *)
(* step and after every later step, should_close holds at the next loop   *)
(* test, the loop exits there and no further frame is started.            *)
C9_CloseRequest ==
    /\ [](polled.close => state.tag = "Close" /\ should_close(state))
    /\ [][C9_Step]_vars

C9_Witness ==
    /\ polled.close
    /\ polled.before = "Done"
    /\ pc = "exit"
    /\ Len(stepped) = 9

C11_Step ==
    /\ (AtSystem("WinSystem") /\ state.tag = "Done" /\ stepped' # stepped) =>
            state' = [state EXCEPT !.t = state.t + dt]
    /\ (state.tag = "Done" /\ state'.tag = "Done" /\ ~AtSystem("WinSystem")) =>
            state'.t = state.t
    /\ (pc = "loop" /\ state.tag = "Done" /\ state.t > 3500) => pc' = "exit"
    /\ (pc = "loop" /\ state.tag = "Done" /\ state.t <= 3500) => pc' = "frame"
    /\ (pc = "loop" /\ pc' = "frame") => dt' > 0

(* C11: in Done every WinSystem step adds the frame's dt to the Done time *)
(* and changes nothing else, no other step changes the Done time, the     *)
(* loop starts another frame while the Done time is at most 3500 and      *)
(* exits at the first loop test where it is more; every frame has a       *)
(* positive dt, and once the state is Done the loop eventually exits.     *)
C11_DoneTimeout ==
    /\ [][C11_Step]_vars
    /\ (state.tag = "Done") ~> (pc = "exit")

C11_Witness ==
    /\ pc = "exit"
    /\ state.tag = "Done"
    /\ state.t = 4375
    /\ ~polled.close

PipelineOrder ==
    <<"ControlSystem", "GuiSystem", "HoldSystem", "SinkingDoorSystem", "SnagSystem",
      "SpinningKeySystem", "TheFloorIsLavaSystem", "UnlockSystem", "WinSystem">>

C10_Step ==
    /\ pc' = "exit" /\ pc # "exit" => pc = "loop"
    /\ pc = "frame" /\ pc' = "loop" => Len(stepped') = 9
    /\ pc = "frame" => pc' \in {"frame", "loop"}

(* C10: in every frame the nine systems are stepped once each in the      *)
(* order ControlSystem, GuiSystem, HoldSystem, SinkingDoorSystem,         *)
(* SnagSystem, SpinningKeySystem, TheFloorIsLavaSystem, UnlockSystem,     *)
(* WinSystem, all with the dt of the frame; the loop is left only at the  *)
(* loop test, so a frame that reaches Done or Close is still completed.   *)
C10_FixedPipeline ==
    /\ [](/\ Len(stepped) <= 9
          /\ \A i \in DOMAIN stepped :
                /\ stepped[i].system = PipelineOrder[i]
                /\ stepped[i].dt = stepped[1].dt
          /\ pc = "frame" => Len(stepped) = idx - 1
                             /\ \A i \in DOMAIN stepped : stepped[i].dt = dt
          /\ pc \in {"loop", "exit"} /\ frames > 0 => Len(stepped) = 9)
    /\ [][C10_Step]_vars

C10_Witness ==
    /\ pc = "loop"
    /\ Len(stepped) = 9
    /\ polled.close
    /\ state.tag = "Close"
    /\ frames >= 2

----------------------------------------------------------------------------
(* Properties of the systems, one step at a time *)

Has(world, e, T) == e \in DOMAIN world.components /\ T \in DOMAIN world.components[e]

Doors(world) ==
    {e \in DOMAIN world.components : Has(world, e, "DoorComponent") /\ Has(world, e, "LocationComponent")}

Keys(world) ==
    {e \in DOMAIN world.components : Has(world, e, "KeyComponent") /\ Has(world, e, "LocationComponent")}

(* the distance of the centres is less than (a.scale + b.scale) * sqrt(2) / 2 *)
Touches(a, b) ==
    2 * ((a.xyz[1] - b.xyz[1]) * (a.xyz[1] - b.xyz[1])
         + (a.xyz[2] - b.xyz[2]) * (a.xyz[2] - b.xyz[2])
         + (a.xyz[3] - b.xyz[3]) * (a.xyz[3] - b.xyz[3]))
        < (a.scale + b.scale) * (a.scale + b.scale)

(* letters are chars, below 2^21: the wrapping difference is 32 exactly when *)
(* the key's letter is the door's plus 32                                  *)
Matched(world, d, k) ==
    /\ d \in Doors(world)
    /\ k \in Keys(world)
    /\ Touches(world.components[d]["LocationComponent"], world.components[k]["LocationComponent"])
    /\ world.components[k]["KeyComponent"].letter
          = world.components[d]["DoorComponent"].letter + 32

After(name) == last.op = name /\ HasWorld(last.before) /\ HasWorld(state)

(* C12: an UnlockSystem step takes a (door, key) pair as a match exactly   *)
(* when their spheres collide and the key's letter minus the door's is 32 *)
(* in wrapping u32 arithmetic: the pairs it collects are those, and a key *)
(* is gone after the step exactly when it was in such a pair; door 'A'    *)
(* takes key 'a', not key 'b', and door 'a' does not take key 'A'.        *)
C12_UnlockMatch ==
    After("UnlockSystem") =>
        LET old == last.before.world
        IN  /\ unlocks(old) = {p \in Doors(old) \X Keys(old) : Matched(old, p[1], p[2])}
            /\ \A k \in Keys(old) :
                  k \notin DOMAIN state.world.components <=> \E d \in Doors(old) : Matched(old, d, k)
            /\ \A d \in Doors(old), k \in Keys(old) :
                  LET dl == old.components[d]["DoorComponent"].letter
                      kl == old.components[k]["KeyComponent"].letter
                      touch == Touches(old.components[d]["LocationComponent"],
                                       old.components[k]["LocationComponent"])
                  IN  /\ (dl = 65 /\ kl = 97 /\ touch) => k \notin DOMAIN state.world.components
                      /\ (\A x \in Doors(old) : old.components[x]["DoorComponent"].letter = dl)
                           /\ ((dl = 65 /\ kl = 98) \/ (dl = 97 /\ kl = 65))
                             => k \in DOMAIN state.world.components

C12_Witness ==
    /\ After("UnlockSystem")
    /\ LET old == last.before.world
       IN  \E d \in Doors(old), k1 \in Keys(old), k2 \in Keys(old) :
              /\ old.components[d]["DoorComponent"].letter = 65
              /\ old.components[k1]["KeyComponent"].letter = 97
              /\ old.components[k2]["KeyComponent"].letter = 98
              /\ Touches(old.components[d]["LocationComponent"],
                         old.components[k2]["LocationComponent"])
              /\ k1 \notin DOMAIN state.world.components
              /\ k2 \in DOMAIN state.world.components

(* C13: after an UnlockSystem step the key of every matched pair is gone  *)
(* and its door's CollisionComponent flag is false; every entity that is  *)
(* in no matched pair has the components it had before the step.          *)
C13_UnlockEffect ==
    After("UnlockSystem") =>
        LET old == last.before.world
            new == state.world
        IN  /\ \A d \in Doors(old), k \in Keys(old) :
                  Matched(old, d, k) =>
                      /\ k \notin DOMAIN new.components
                      /\ d \in DOMAIN new.components
                      /\ Has(old, d, "CollisionComponent") =>
                             ~new.components[d]["CollisionComponent"].active
                      /\ \A T \in DOMAIN old.components[d] \ {"CollisionComponent"} :
                             new.components[d][T] = old.components[d][T]
            /\ \A e \in DOMAIN old.components :
                  (~\E x \in DOMAIN old.components : Matched(old, e, x) \/ Matched(old, x, e)) =>
                      /\ e \in DOMAIN new.components
                      /\ new.components[e] = old.components[e]
            /\ DOMAIN new.components \subseteq DOMAIN old.components
            /\ new.next_entity = old.next_entity

C13_Witness ==
    /\ After("UnlockSystem")
    /\ LET old == last.before.world
           new == state.world
       IN  \E d \in Doors(old), k \in Keys(old), b \in Doors(old) :
              /\ Matched(old, d, k)
              /\ old.components[d]["CollisionComponent"].active
              /\ ~new.components[d]["CollisionComponent"].active
              /\ b # d
              /\ old.components[b]["CollisionComponent"].active
              /\ new.components[b]["CollisionComponent"].active

Cameras(world) ==
    {e \in DOMAIN world.components : Has(world, e, "CameraComponent")}

(* the mouse motion of a poll: yaw to the left of x, pitch of y, in tenths *)
(* of a degree (move_yaw / 10.0 degrees)                                   *)
RECURSIVE Mouse(_)
Mouse(events) ==
    IF events = <<>> THEN <<0, 0>>
    ELSE LET m == Mouse(Tail(events))
         IN  IF Head(events).kind = "MouseMotion"
             THEN <<m[1] + Head(events).y, m[2] - Head(events).x>>
             ELSE m

(* a twentieth of a tile along the view direction of the yaw, and to its right *)
Ahead(yaw) ==
    CASE yaw = 0 -> <<0, 0, 125>>
      [] yaw = 900 -> <<125, 0, 0>>
      [] yaw = 1800 -> <<0, 0, -125>>
      [] yaw = 2700 -> <<-125, 0, 0>>

Aside(yaw) ==
    CASE yaw = 0 -> <<-125, 0, 0>>
      [] yaw = 900 -> <<0, 0, 125>>
      [] yaw = 1800 -> <<125, 0, 0>>
      [] yaw = 2700 -> <<0, 0, -125>>

Intended(loc, ctl) ==
    [i \in 1..3 |-> loc.xyz[i] + ctl.move_forward * Ahead(loc.rotation[2])[i]
                               + ctl.move_strafe * Aside(loc.rotation[2])[i]]

(* an entity with an active CollisionComponent is within the distance of at *)
Obstructed(world, at, scale) ==
    \E e \in DOMAIN world.components :
        /\ Has(world, e, "CollisionComponent")
        /\ Has(world, e, "LocationComponent")
        /\ world.components[e]["CollisionComponent"].active
        /\ Touches([xyz |-> at, scale |-> scale], world.components[e]["LocationComponent"])

(* C14: a ControlSystem step moves the camera to the intended position    *)
(* exactly when no entity with an active CollisionComponent collides with *)
(* the camera there, and otherwise leaves it at its position; entities    *)
(* with an inactive flag block nothing; either way the frame's pitch and  *)
(* yaw are applied, and no other entity is changed.                       *)
C14_MoveOrReject ==
    After("ControlSystem") =>
        LET old == last.before.world
            new == state.world
        IN  /\ DOMAIN new.components = DOMAIN old.components
            /\ \A e \in DOMAIN old.components \ Cameras(old) :
                  new.components[e] = old.components[e]
            /\ \A c \in Cameras(old) :
                  LET was == old.components[c]["LocationComponent"]
                      now == new.components[c]["LocationComponent"]
                      to == Intended(was, control)
                      pitch == was.rotation[1] + Mouse(last.input)[1]
                  IN  /\ now.xyz = IF Obstructed(old, to, was.scale) THEN was.xyz ELSE to
                      /\ now.rotation[2] = (was.rotation[2] + Mouse(last.input)[2]) % 3600
                      /\ now.rotation[1] =
                             IF pitch > 850 THEN 850 ELSE IF pitch < -850 THEN -850 ELSE pitch
                      /\ now.scale = was.scale

C14_Witness ==
    /\ After("ControlSystem")
    /\ control.move_forward = 1
    /\ \E c \in Cameras(state.world) :
          LET was == last.before.world.components[c]["LocationComponent"]
              now == state.world.components[c]["LocationComponent"]
          IN  /\ now.xyz = was.xyz
              /\ now.rotation[2] # was.rotation[2]
    /\ \E e \in DOMAIN state.world.components :
          /\ Has(state.world, e, "CollisionComponent")
          /\ ~state.world.components[e]["CollisionComponent"].active

(* the location of the camera the step read *)
CameraLoc(world) ==
    LET c == CHOOSE e \in Cameras(world) : TRUE
    IN  world.components[c]["LocationComponent"]

(* C15: after a SnagSystem step every key that was not held and whose     *)
(* sphere collides with the camera's is held, every other key has the     *)
(* held flag it had, and nothing but held flags has changed.              *)
C15_Snag ==
    After("SnagSystem") /\ Cameras(last.before.world) # {} =>
        LET old == last.before.world
            new == state.world
        IN  /\ DOMAIN new.components = DOMAIN old.components
            /\ \A e \in DOMAIN old.components :
                  /\ DOMAIN new.components[e] = DOMAIN old.components[e]
                  /\ \A T \in DOMAIN old.components[e] \ {"KeyComponent"} :
                        new.components[e][T] = old.components[e][T]
                  /\ Has(old, e, "KeyComponent") =>
                        /\ new.components[e]["KeyComponent"].letter
                              = old.components[e]["KeyComponent"].letter
                        /\ new.components[e]["KeyComponent"].held =
                              (\/ old.components[e]["KeyComponent"].held
                               \/ /\ e \in Keys(old)
                                  /\ Touches(CameraLoc(old), old.components[e]["LocationComponent"]))

C15_Witness ==
    /\ After("SnagSystem")
    /\ \E k1 \in Keys(state.world), k2 \in Keys(state.world) :
          /\ ~last.before.world.components[k1]["KeyComponent"].held
          /\ state.world.components[k1]["KeyComponent"].held
          /\ ~state.world.components[k2]["KeyComponent"].held
          /\ 2 * DistSq(CameraLoc(state.world).xyz, Loc(state.world, k2).xyz)
                = Sq(CameraLoc(state.world).scale + Loc(state.world, k2).scale)

(* C16: after a HoldSystem step every held key is at the camera's position *)
(* plus 0.3 along the direction of the camera's yaw, at height 0.1; keys  *)
(* that are not held and every other entity are where they were.          *)
C16_Hold ==
    After("HoldSystem") /\ Cameras(last.before.world) # {} =>
        LET old == last.before.world
            new == state.world
            cam == CameraLoc(old)
        IN  /\ DOMAIN new.components = DOMAIN old.components
            /\ \A e \in DOMAIN old.components :
                  IF e \in Keys(old) /\ old.components[e]["KeyComponent"].held
                  THEN /\ new.components[e]["LocationComponent"].xyz =
                             <<cam.xyz[1] + 6 * Ahead(cam.rotation[2])[1],
                               250,
                               cam.xyz[3] + 6 * Ahead(cam.rotation[2])[3]>>
                       /\ new.components[e]["LocationComponent"].rotation
                             = old.components[e]["LocationComponent"].rotation
                       /\ new.components[e]["LocationComponent"].scale
                             = old.components[e]["LocationComponent"].scale
                       /\ \A T \in DOMAIN old.components[e] \ {"LocationComponent"} :
                             new.components[e][T] = old.components[e][T]
                  ELSE new.components[e] = old.components[e]

C16_Witness ==
    /\ After("HoldSystem")
    /\ CameraLoc(state.world).rotation[2] = 900
    /\ \E k1 \in Keys(state.world), k2 \in Keys(state.world) :
          /\ state.world.components[k1]["KeyComponent"].held
          /\ Loc(state.world, k1).xyz # Loc(last.before.world, k1).xyz
          /\ ~state.world.components[k2]["KeyComponent"].held

(* C17: a SinkingDoorSystem step with elapsed time dt lowers every door   *)
(* whose CollisionComponent flag is false by dt / 2500 (dt units of       *)
(* 1/2500) and leaves everything else, doors with a true flag and         *)
(* entities that are no doors included, as it was.                         *)
C17_Sink ==
    After("SinkingDoorSystem") =>
        LET old == last.before.world
            new == state.world
        IN  /\ DOMAIN new.components = DOMAIN old.components
            /\ \A e \in DOMAIN old.components :
                  IF /\ e \in Doors(old)
                     /\ Has(old, e, "CollisionComponent")
                     /\ ~old.components[e]["CollisionComponent"].active
                  THEN /\ new.components[e]["LocationComponent"].xyz =
                             <<old.components[e]["LocationComponent"].xyz[1],
                               old.components[e]["LocationComponent"].xyz[2] - last.dt,
                               old.components[e]["LocationComponent"].xyz[3]>>
                       /\ \A T \in DOMAIN old.components[e] \ {"LocationComponent"} :
                             new.components[e][T] = old.components[e][T]
                  ELSE new.components[e] = old.components[e]

C17_Witness ==
    /\ After("SinkingDoorSystem")
    /\ last.dt = 875
    /\ \E d1 \in Doors(state.world), d2 \in Doors(state.world) :
          /\ ~state.world.components[d1]["CollisionComponent"].active
          /\ Loc(state.world, d1).xyz[2] = Loc(last.before.world, d1).xyz[2] - 875
          /\ state.world.components[d2]["CollisionComponent"].active

(* C18: a TheFloorIsLavaSystem step deletes exactly the entities whose    *)
(* LocationComponent height is below -1: one at -1.5 goes, one at 0 or at *)
(* exactly -1 stays, one without a LocationComponent stays; the entities  *)
(* that stay are unchanged.                                                *)
C18_Lava ==
    After("TheFloorIsLavaSystem") =>
        LET old == last.before.world
            new == state.world
        IN  /\ DOMAIN new.components =
                  {e \in DOMAIN old.components :
                      ~(Has(old, e, "LocationComponent")
                        /\ old.components[e]["LocationComponent"].xyz[2] < -2500)}
            /\ \A e \in DOMAIN new.components : new.components[e] = old.components[e]
            /\ \A e \in DOMAIN old.components :
                  /\ ~Has(old, e, "LocationComponent") => e \in DOMAIN new.components
                  /\ Has(old, e, "LocationComponent") =>
                        LET y == old.components[e]["LocationComponent"].xyz[2]
                        IN  /\ y = -3750 => e \notin DOMAIN new.components
                            /\ y \in {0, -2500} => e \in DOMAIN new.components

C18_Witness ==
    /\ After("TheFloorIsLavaSystem")
    /\ \E e \in DOMAIN last.before.world.components :
          /\ e \notin DOMAIN state.world.components
          /\ Loc(last.before.world, e).xyz[2] = -3750
    /\ \E e \in DOMAIN state.world.components :
          Has(state.world, e, "LocationComponent") /\ Loc(state.world, e).xyz[2] = -2500
    /\ \E e \in DOMAIN state.world.components : ~Has(state.world, e, "LocationComponent")

(* C19: collides(a, b) is true exactly when the distance of the centres is *)
(* less than (a.scale + b.scale) * sqrt(2) / 2, that is when twice its     *)
(* square is less than the square of the sum of the scales: false at      *)
(* exactly that distance, true nearer, false further, and the same for    *)
(* (b, a).                                                                 *)
C19_Collides ==
    last.op = "collides" =>
        LET dx == last.self.xyz[1] - last.other.xyz[1]
            dy == last.self.xyz[2] - last.other.xyz[2]
            dz == last.self.xyz[3] - last.other.xyz[3]
            sum == last.self.scale + last.other.scale
            twice == 2 * (dx * dx + dy * dy + dz * dz)
        IN  /\ twice < sum * sum => last.result
            /\ twice = sum * sum => ~last.result
            /\ twice > sum * sum => ~last.result
            /\ last.result = collides(last.other, last.self)

C19_Witness ==
    /\ last.op = "collides"
    /\ ~last.result
    /\ last.self.xyz # last.other.xyz
    /\ 2 * DistSq(last.self.xyz, last.other.xyz) = Sq(last.self.scale + last.other.scale)

----------------------------------------------------------------------------
(* Properties of the systems on Worlds with missing components *)

CameraSeekers == {"ControlSystem", "HoldSystem", "SnagSystem", "WinSystem"}

(* C21: when no entity carries both CameraComponent and LocationComponent, *)
(* a step of ControlSystem, HoldSystem, SnagSystem or WinSystem does not   *)
(* panic and leaves the World and the Playing/Done state as they were.     *)
C21_NoCameraSkips ==
    (/\ last.op \in CameraSeekers
     /\ HasWorld(last.before)
     /\ cameras(last.before.world) = {})
        => /\ ~last.panicked
           /\ HasWorld(state)
           /\ state.tag = last.before.tag
           /\ state.world = last.before.world

(* C22: when WinSystem steps in Playing with the camera colliding with the *)
(* goal and no decal entity in the World, it does not panic and does none  *)
(* of its work: the state after the step equals the state before it.       *)
C22_NoDecalSkips ==
    (/\ last.op = "WinSystem"
     /\ last.before.tag = "Playing"
     /\ \E c \in cameras(last.before.world) :
            goals(last.before.world, Loc(last.before.world, c)) # {}
     /\ decals(last.before.world) = {})
        => /\ ~last.panicked
           /\ state = last.before

----------------------------------------------------------------------------
(* Properties of the asset caches *)

(* the values constructed so far from the file at path, through any cache *)
Built(path) == {id \in DOMAIN res.vals : res.vals[id].path = path}

(* the values constructed through cache from path that are still alive *)
LiveIn(cache, path) ==
    {id \in DOMAIN res.vals :
        /\ res.vals[id].cache = cache
        /\ res.vals[id].path = path
        /\ live(res.vals, id)}

(* thread t is between the lock() of cache and its return *)
Inside(t, cache) ==
    /\ res.thr[t].pc # "idle"
    /\ \/ res.thr[t].cache = cache
       \/ cache = MATERIAL_CACHE /\ res.thr[t].mtl # <<>>

(* C23 as stated: each canonicalized path is read and constructed at most *)
(* once in the process, and no two threads build the value for the same   *)
(* path at the same time.                                                 *)
C23_LoadedOnce ==
    res.active =>
        /\ \A path \in Files : Cardinality(Built(path)) <= 1
        /\ \A t1 \in Loaders, t2 \in Loaders :
              (t1 # t2 /\ res.thr[t1].pc = "open" /\ res.thr[t2].pc = "open")
                  => res.thr[t1].path # res.thr[t2].path

(* C23, amended: each cache holds at most one live value per canonicalized *)
(* path, that value is the one the cache hands out, and no two threads are *)
(* inside the lookup/build/insert of the same cache at once.               *)
C23_OneLivePerCache ==
    res.active =>
        /\ \A cache \in Caches, path \in Files :
              /\ Cardinality(LiveIn(cache, path)) <= 1
              /\ \A id \in LiveIn(cache, path) : res.cache[cache][path] = id
        /\ \A cache \in Caches :
              Cardinality({t \in Loaders : Inside(t, cache)}) <= 1

(* a load has hit the cache and both threads hold the same value *)
C23_Witness ==
    /\ res.active
    /\ last.op = "load"
    /\ last.result = "hit"
    /\ \E id \in DOMAIN res.vals : \A t \in Loaders : res.vals[id].held[t] > 0

(* C24: on the Playing->Done step of WinSystem the World of Done is the   *)
(* World of Playing: the entity counter is the same, the entities are the *)
(* same but for one deleted goal, and every component is the same but for *)
(* the enabled flag of a decal.                                           *)
C24_WorldMoves ==
    (/\ last.op = "WinSystem"
     /\ last.before.tag = "Playing"
     /\ state.tag = "Done")
        => LET before == last.before.world
               after == state.world
           IN  /\ after.next_entity = before.next_entity
               /\ \E goal \in Goals(before) :
                      DOMAIN after.components = DOMAIN before.components \ {goal}
               /\ \A e \in DOMAIN after.components :
                      \/ after.components[e] = before.components[e]
                      \/ /\ e \in Decals(before)
                         /\ after.components[e] =
                               [before.components[e] EXCEPT !["DecalComponent"].enabled = TRUE]

(* the game was won in a World that holds more than camera, goal and decal *)
C24_Witness ==
    /\ last.op = "WinSystem"
    /\ last.before.tag = "Playing"
    /\ state.tag = "Done"
    /\ state.t = 0
    /\ Cardinality(DOMAIN state.world.components) >= 3
    /\ Decals(state.world) # {}

----------------------------------------------------------------------------
(* Properties of the frames of the host loop *)

(* C25: the dt a frame passes to the systems is the time elapsed since the *)
(* previous measurement in whole milliseconds: 1000 times the whole        *)
(* seconds plus the sub-second milliseconds.                               *)
C25_Step ==
    (pc = "loop" /\ pc' = "frame") =>
        \A elapsed \in Elapsed :
            dt' = frame_dt(elapsed) => dt' = 1000 * elapsed[1] + elapsed[2]

C25_DtMillis == [][C25_Step]_vars

----------------------------------------------------------------------------
(* Properties of the map parser *)

(* the tile characters of a text, in file order: the body less whitespace *)
TilesOf(text) ==
    SelectSeq(SubSeq(text, Unwrap(find(text, 10)) + 2, Len(text)),
              LAMBDA ch : ch \notin {9, 10, 13, 32})

(* the (column, row) of the tile at index i (from 1) of a grid *)
CellOf(i, width) == <<(i - 1) % width, (i - 1) \div width>>

(* C26: Map::from_str records for the start, the goal and each key the   *)
(* (column, row) of its tile in the grid, whatever whitespace ends the   *)
(* rows, and World::from_map creates the camera at the start tile.       *)
C26_TilePositions ==
    last.op = "from_str" =>
        /\ last.result.ok
        /\ LET map == last.result.map
               chars == TilesOf(last.text)
           IN  /\ \A i \in DOMAIN chars :
                      /\ chars[i] = 83 => map.start = CellOf(i, map.dims[1])
                      /\ chars[i] = 71 => map.goal = CellOf(i, map.dims[1])
                      /\ chars[i] \in 97..101 =>
                             \E k \in DOMAIN map.keys :
                                 map.keys[k] = CellOf(i, map.dims[1]) \o <<chars[i]>>
               /\ \A c \in cameras(w), i \in DOMAIN chars :
                      chars[i] = 83 =>
                          Loc(w, c).xyz = <<Centre(CellOf(i, map.dims[1])[1]), Unit \div 4,
                                            Centre(CellOf(i, map.dims[1])[2])>>

(* the camera's sphere is within the minimal distance of no entity whose *)
(* CollisionComponent is active                                          *)
CameraClear(world) ==
    \A c \in Cameras(world) :
        Has(world, c, "LocationComponent") =>
            ~Obstructed(world, world.components[c]["LocationComponent"].xyz,
                        world.components[c]["LocationComponent"].scale)

(* no step moves an entity whose flag is active, or sets a flag back to active *)
C27_Step ==
    (HasWorld(state) /\ HasWorld(state')) =>
        \A e \in DOMAIN state.world.components \cap DOMAIN state'.world.components :
            Has(state.world, e, "CollisionComponent") =>
                /\ Has(state'.world, e, "CollisionComponent")
                /\ IF state.world.components[e]["CollisionComponent"].active
                   THEN Has(state.world, e, "LocationComponent") =>
                            state'.world.components[e]["LocationComponent"]
                                = state.world.components[e]["LocationComponent"]
                   ELSE ~state'.world.components[e]["CollisionComponent"].active

(* C27: in a game started by World::from_map with the camera clear of every *)
(* active collidable, the camera stays clear of them after any frames and  *)
(* inputs: ControlSystem commits no colliding move, and no system moves an *)
(* entity with an active flag or re-activates a flag.                      *)
C27_CameraStaysClear ==
    /\ [](HasWorld(state) => CameraClear(state.world))
    /\ [][C27_Step]_vars

(* a frame has ended with the camera pressing against an active collidable: *)
(* the step it is asked to make would collide, and it is still clear       *)
C27_Witness ==
    /\ pc = "loop"
    /\ frames > 0
    /\ HasWorld(state)
    /\ control.move_strafe # 0
    /\ CameraClear(state.world)
    /\ LET from == CameraLoc(state.world)
       IN  Obstructed(state.world,
                      Intended(from, [move_forward |-> control.move_forward,
                                      move_strafe |-> control.move_strafe]),
                      from.scale)

(* C28: in a game started by World::from_map, at the end of every frame a *)
(* Playing state has the goal entity and the win decal disabled, and a    *)
(* Done state has no goal entity and the win decal enabled.               *)
C28_GoalAndDecal ==
    (pc = "loop" /\ HasWorld(state)) =>
        /\ Cardinality(Decals(state.world)) = 1
        /\ IF state.tag = "Playing"
           THEN /\ Cardinality(Goals(state.world)) = 1
                /\ \A d \in Decals(state.world) :
                       ~state.world.components[d]["DecalComponent"].enabled
           ELSE /\ Goals(state.world) = {}
                /\ \A d \in Decals(state.world) :
                       state.world.components[d]["DecalComponent"].enabled

(* a frame has ended in Done, after frames that ended in Playing *)
C28_Witness ==
    /\ pc = "loop"
    /\ frames > 1
    /\ state.tag = "Done"
    /\ Goals(state.world) = {}

----------------------------------------------------------------------------
(* Properties of unlocked doors over the frames *)

(* the doors of the maps the game is started on *)
DoorEntities == UNION {Doors(from_map(map)) : map \in Maps \union {DoorMap}}

(* the door d is in the World with its collision flag inactive *)
Unlocked(d) ==
    /\ HasWorld(state)
    /\ d \in Doors(state.world)
    /\ Has(state.world, d, "CollisionComponent")
    /\ ~state.world.components[d]["CollisionComponent"].active

(* the door d is no longer in the World *)
Gone(d) == HasWorld(state) /\ d \notin DOMAIN state.world.components

(* no further frame is stepped: the loop has ended, the state is Close, or *)
(* the frames of Playing that are looked at are over                       *)
FramesOver ==
    \/ pc = "exit"
    \/ ~HasWorld(state)
    \/ pc = "loop" /\ state.tag = "Playing" /\ frames >= MaxFrames

(* a SinkingDoorSystem step with a positive dt lowers every unlocked door, *)
(* and a TheFloorIsLavaSystem step deletes every door below -1             *)
C29_Step ==
    /\ (AtSystem("SinkingDoorSystem") /\ stepped' # stepped /\ HasWorld(state) /\ dt > 0) =>
           \A d \in DoorEntities :
               Unlocked(d) =>
                   /\ d \in Doors(state'.world)
                   /\ state'.world.components[d]["LocationComponent"].xyz[2]
                          < state.world.components[d]["LocationComponent"].xyz[2]
    /\ (AtSystem("TheFloorIsLavaSystem") /\ stepped' # stepped /\ HasWorld(state)) =>
           \A d \in DoorEntities :
               (/\ d \in Doors(state.world)
                /\ state.world.components[d]["LocationComponent"].xyz[2] < 0 - Unit)
                   => d \notin DOMAIN state'.world.components

(* C29: once UnlockSystem has made a door's flag inactive, every later    *)
(* frame with a positive dt lowers the door, TheFloorIsLavaSystem deletes *)
(* it in the frame that takes it below -1, and so the door is eventually  *)
(* deleted unless the frames stop first.                                  *)
C29_DoorSinksAway ==
    /\ [][C29_Step]_vars
    /\ \A d \in DoorEntities : Unlocked(d) ~> (Gone(d) \/ FramesOver)

(* an unlocked door has sunk frame after frame and is deleted, at a dt of *)
(* under one second per frame                                            *)
C29_Witness ==
    /\ pc = "loop"
    /\ frames > 3
    /\ HasWorld(state)
    /\ \A i \in DOMAIN stepped : stepped[i].dt < 1000
    /\ \E d \in DoorEntities : Gone(d)

----------------------------------------------------------------------------
(* Properties of the gameplay flags *)

(* no step sets a held flag back to false on a key that stays in the World, *)
(* or a collision flag back to active                                      *)
C30_Step ==
    (HasWorld(state) /\ HasWorld(state')) =>
        \A e \in DOMAIN state.world.components \cap DOMAIN state'.world.components :
            /\ (/\ Has(state.world, e, "KeyComponent")
                /\ state.world.components[e]["KeyComponent"].held)
                   => /\ Has(state'.world, e, "KeyComponent")
                      /\ state'.world.components[e]["KeyComponent"].held
            /\ (/\ Has(state.world, e, "CollisionComponent")
                /\ ~state.world.components[e]["CollisionComponent"].active)
                   => /\ Has(state'.world, e, "CollisionComponent")
                      /\ ~state'.world.components[e]["CollisionComponent"].active

(* C30: over any sequence of system steps a key's held flag, once true, is *)
(* never false again while the key exists, and a CollisionComponent flag,  *)
(* once inactive, is never active again.                                   *)
C30_FlagsOneWay == [][C30_Step]_vars

(* two steps have run: a key that was held is still held after HoldSystem *)
(* has carried it, in a World with a door whose flag is inactive         *)
C30_Witness ==
    /\ frames = 2
    /\ last.op = "HoldSystem"
    /\ HasWorld(state)
    /\ \E k \in Keys(state.world) :
          /\ k \in Keys(last.before.world)
          /\ last.before.world.components[k]["KeyComponent"].held
          /\ state.world.components[k]["KeyComponent"].held
          /\ state.world.components[k]["LocationComponent"]
                # last.before.world.components[k]["LocationComponent"]
    /\ \E d \in Doors(state.world) :
          /\ Has(state.world, d, "CollisionComponent")
          /\ ~state.world.components[d]["CollisionComponent"].active

====
